---- MODULE Spec2Model ----
(***************************************************************************)
(* Door access scheduling engine of cliny.                                 *)
(*                                                                         *)
(* Time is local wall-clock time in minutes, counted from 00:00 of         *)
(* calendar day 0.  Seconds and milliseconds are not modelled: every Date  *)
(* the scheduler builds has them cleared, and the clock only takes whole   *)
(* minutes.  Day lengths are constant (no daylight-saving switch inside    *)
(* the modelled calendar days).                                            *)
(***************************************************************************)
EXTENDS Integers, Sequences, FiniteSets, TLC

VARIABLES
    currentConfig,  \* Scheduler._currentConfig: store weekday key -> frame list
    config,         \* Scheduler._config: delays and currentOverwrite
    holidays,       \* calendar days the upstream holiday list contains
    tz,             \* offset of local time to UTC in minutes
    now,            \* the wall clock
    persisted,      \* what ConfigService.setConfig('scheduler', ..) wrote last
    result,         \* what the last finished getConfigForDate returned
    pause,          \* Scheduler._pause
    evals,          \* getConfigForDate calls that have started and not finished
    lastEmit,       \* the last value pushed to Scheduler._state$
    cfgVer,         \* number of setConfig calls so far (a history counter)
    running,        \* DoorController: the subscriber's in-flight flag
    calls,          \* DoorControllerRPC._call promises that have not settled
    subs,           \* reply topics with a live MQTT subscription
    isOpen,         \* API._open
    holds,          \* armed 10 s timers of API.open
    event,          \* the last thing that happened to the door components
    byId,           \* Cache._byId: key -> value
    created,        \* LRUCache._created: key -> creation time, in insertion order
    lru,            \* LRUCache._lru: keys, most recently touched first
    settings,       \* LRUCache._maxSize, _maxAge and whether _loadFn is set
    clock,          \* new Date().getTime() as the cache reads it
    loads,          \* get calls waiting for the loader
    ret,            \* the last cache call: what it was and what came of it
    touched,        \* history: the stored keys, the one touched last first
    wall,           \* the wall clock of the ticker, in seconds
    tickers,        \* the subscriptions to Ticker.interval made so far
    tevent,         \* the last thing that happened to a ticker subscription
    completed,      \* Scheduler._state$ has completed
    tickerSubscription, \* Scheduler._tickerSubscription: "open" or "closed"
    holidaysEnabled,    \* HolidayService._enabled
    holidayCache,   \* the 'holidaysByYear' cache: year -> cached list
    hret,           \* the last getHolidaysForYear call and what it resolved to
    stored,         \* the opening hours in the database: weekday key -> frames
    schedulerLoaded,    \* the scheduler's constructor has loaded both configurations
    sevent,         \* the last call to the opening hours API and its outcome
    wire,           \* MQTT operations of the client on their way to the broker
    requested       \* reply tokens of the request messages the broker has passed on

\* the variables of the door controller, the actuator client and the door API
doorVars == <<running, calls, subs, isOpen, holds, event>>

\* the variables of the LRU cache
cacheVars == <<byId, created, lru, settings, clock, loads, ret, touched>>

\* the variables of the ticker
tickerVars == <<wall, tickers, tevent>>

\* the scheduler's state stream and its subscription to the ticker
lifeVars == <<completed, tickerSubscription>>

\* the variables of the holiday service
holidayVars == <<holidaysEnabled, holidayCache, hret>>

\* the variables of the opening hours store and of the scheduler's start
storeVars == <<stored, schedulerLoaded, sevent>>

\* the MQTT connection of the actuator client as the broker sees it
rpcVars == <<wire, requested>>

vars == <<currentConfig, config, holidays, tz, now, persisted, result,
          pause, evals, lastEmit, cfgVer, doorVars, cacheVars, tickerVars, lifeVars,
          holidayVars, storeVars, rpcVars>>

\* nothing has happened yet
NoEvent == [kind |-> "none", tok |-> 0, owner |-> "none", outcome |-> "none"]

\* No MQTT operation is under way and no request has reached the broker.
RpcIdle ==
    /\ wire = << >>
    /\ requested = << >>

\* The door components right after construction: no call, no subscription.
DoorIdle ==
    /\ running = FALSE
    /\ calls = {}
    /\ subs = {}
    /\ isOpen = FALSE
    /\ holds = 0
    /\ event = NoEvent

\* Cache keys, and the value of a missing Map entry
Keys == {"a", "b", "c"}
Undefined == "undefined"

\* Infinity, the limit the constructor takes when none is configured
Infinity == 1000000

\* no cache call has been made yet
NoReturn == [op |-> "none", key |-> "none", value |-> Undefined, evicted |-> << >>,
             status |-> "none", loaded |-> FALSE]

\* An LRU cache right after construction, here without limits and unused.
CacheIdle ==
    /\ byId = [k \in Keys |-> Undefined]
    /\ created = << >>
    /\ lru = << >>
    /\ settings = [maxSize |-> Infinity, maxAge |-> Infinity, loader |-> FALSE]
    /\ clock = 0
    /\ loads = << >>
    /\ ret = NoReturn
    /\ touched = << >>

\* The scheduler after its constructor's setConfig: the stream is open and
\* _setupInterval has subscribed to the ticker.
SchedulerAlive ==
    /\ completed = FALSE
    /\ tickerSubscription = "open"

\* Years of the modelled calendar days
Years == {0, 1}

\* no call of getHolidaysForYear yet
NoHolidayCall == [called |-> FALSE, configured |-> FALSE, year |-> 0, upstream |-> "up",
                  enabled |-> TRUE, kind |-> "none", days |-> {}, fetched |-> FALSE]

\* The holiday service after construction: enabled, nothing cached.
HolidayIdle ==
    /\ holidaysEnabled = TRUE
    /\ holidayCache = [y \in Years |-> [cached |-> FALSE, days |-> {}]]
    /\ hret = NoHolidayCall

\* no call to the opening hours API yet
NoStoreCall == [op |-> "none", weekday |-> 0, frame |-> [start |-> 0, end |-> 0],
                status |-> 0, loaded |-> FALSE]

\* The scheduler's working copy is what OpeningHoursController.getConfig
\* returned when the constructor loaded it.
StoreLoaded ==
    /\ stored = currentConfig
    /\ schedulerLoaded = TRUE
    /\ sevent = NoStoreCall

\* no ticker event yet
NoTick == [kind |-> "none", sub |-> 0, delivered |-> FALSE]

\* No subscription to the ticker has been made.
TickerIdle ==
    /\ wall = 0
    /\ tickers = << >>
    /\ tevent = NoTick

-----------------------------------------------------------------------------
(* Calendar                                                                *)

MinutesPerHour == 60
MinutesPerDay == 24 * MinutesPerHour

\* Day 0 of the model is a Sunday, 31 December; day 1 is Monday, 1 January.
\* Local time is UTC+1 (utcOffset, in minutes).
Calendar == [day0IsoWeekday |-> 7, newYearDay |-> 1, utcOffset |-> 60]

DayOf(t) == t \div MinutesPerDay

\* date.getHours() * 60 + date.getMinutes()
MinuteOfDay(t) == t % MinutesPerDay

\* moment(date).isoWeekday(): 1 = Monday .. 7 = Sunday
isoWeekday(t) == ((DayOf(t) + Calendar.day0IsoWeekday - 1) % 7) + 1

YearOf(day) == IF day < Calendar.newYearDay THEN 0 ELSE 1

\* date.getUTCFullYear(): the year of the UTC calendar day of a local time
getUTCFullYear(t) == YearOf(DayOf(t - tz))

\* moment(refDate).add(1, 'd').startOf('day')
startOfNextDay(t) == (DayOf(t) + 1) * MinutesPerDay

-----------------------------------------------------------------------------
(* Values                                                                  *)

\* config.currentOverwrite === null
NoOverwrite == [present |-> FALSE, state |-> "lock", until |-> 0]

Overwrite(state, until) == [present |-> TRUE, state |-> state, until |-> until]

\* the `until` of a DoorConfig: a timestamp or null
NoUntil == [defined |-> FALSE, t |-> 0]

Until(t) == [defined |-> TRUE, t |-> t]

Frame(start, end) == [start |-> start, end |-> end]

\* Before any getConfigForDate call has finished.
\* date is the call's argument; seen and ver record the overwrite the call found
\* and the setConfig count when it read the configuration.
NoResult == [status |-> "none", state |-> "lock", until |-> NoUntil,
             source |-> "none", date |-> 0, seen |-> NoOverwrite, ver |-> 0]

\* the DoorConfig r a getConfigForDate call returns, with the record of the call
Returned(r, date, seen, ver) ==
    [status |-> r.status, state |-> r.state, until |-> r.until, source |-> r.source,
     date |-> date, seen |-> seen, ver |-> ver]

\* Before anything was pushed to the state stream.
NoEmit == [state |-> "lock", source |-> "none", origin |-> "none",
           until |-> NoUntil, at |-> 0, ver |-> 0]

\* Nothing written by ConfigService.setConfig yet.
NotPersisted == [written |-> FALSE, value |-> [delays |-> [open |-> 0, close |-> 0],
                                               currentOverwrite |-> NoOverwrite]]

-----------------------------------------------------------------------------
(* Scheduler: pure parts                                                   *)

\* get delays(): {before: delays.open || 0, after: delays.close || 0}
delays(cfg) == [before |-> cfg.delays.open, after |-> cfg.delays.close]

\* Scheduler.isInTimeFrame
isInTimeFrame(d, minutes, frame) ==
    LET fromMinutes == frame.start - d.before
        afterMinutes == frame.end + d.after
    IN  minutes >= fromMinutes /\ minutes < afterMinutes

\* Array.prototype.find as an index: hits are the indexes whose element passes
\* the test; the first of them is found, 0 stands for undefined
find(hits) ==
    IF hits = {} THEN 0 ELSE CHOOSE i \in hits : \A j \in hits : i <= j

toDateNoMinuteOffset(t, dateOffset, minuteOffset, refDate) ==
    LET minutes == t % MinutesPerHour
        hours == t \div MinutesPerHour
    IN  (DayOf(refDate) + dateOffset) * MinutesPerDay + hours * MinutesPerHour + minutes

\* the toDate closure of getConfigForDate: refDate's day moved by dateOffset
\* days, at t minutes after midnight, moved by minuteOffset minutes
toDate(t, dateOffset, minuteOffset, refDate) ==
    LET minutes == t % MinutesPerHour
        hours == t \div MinutesPerHour
    IN  (DayOf(refDate) + dateOffset) * MinutesPerDay + hours * MinutesPerHour + minutes
            + minuteOffset

\* Scheduler._dateFromPreset
dateFromPreset(minutes, offsetDays, refDate) ==
    LET min == minutes % MinutesPerHour
        hours == minutes \div MinutesPerHour
    IN  (DayOf(refDate) + offsetDays) * MinutesPerDay + hours * MinutesPerHour + min

\* this._currentConfig[weekDay] is an array (not undefined)
isArray(cc, weekDay) == weekDay \in DOMAIN cc

ScanDays == 7

RECURSIVE getNextFrameFrom(_, _, _, _)
\* the while loop of Scheduler._getNextFrame
getNextFrameFrom(cc, refDate, current, offset) ==
    IF offset > ScanDays
    THEN [found |-> FALSE, offset |-> 0, frame |-> Frame(0, 0)]
    ELSE LET next == IF isArray(cc, current)
                     THEN find({i \in 1..Len(cc[current]) :
                                  dateFromPreset(cc[current][i].start, offset, refDate)
                                      > refDate})
                     ELSE 0
         IN  IF next # 0
             THEN [found |-> TRUE, offset |-> offset, frame |-> cc[current][next]]
             ELSE getNextFrameFrom(cc, refDate,
                                   IF current + 1 > 7 THEN 1 ELSE current + 1,
                                   offset + 1)

\* Scheduler._getNextFrame
getNextFrame(cc, refDate) == getNextFrameFrom(cc, refDate, isoWeekday(refDate), 0)

\* The list of a year as the upstream service has it, which getHolidaysForYear
\* is to deliver: the holidays whose date lies in that year.  The scheduler is
\* modelled against this list; how HolidayService itself comes by its answer
\* is modelled with the holiday service below.
getHolidaysForYear(year) == {d \in holidays : YearOf(d) = year}

\* getConfigForDate, the part after `await getHolidaysForYear`:
\* currentDayConfig was read before the await, cc and cfg are read after it
weeklyConfigForDate(date, currentDayConfig, cc, cfg, holidayList) ==
    LET minutes == MinuteOfDay(date)
        d == delays(cfg)
    IN  IF ~currentDayConfig.isArray
        THEN \* currentDayConfig.find on undefined: a TypeError rejects the call
             [status |-> "throw", state |-> "lock", until |-> NoUntil, source |-> "none"]
        ELSE
        LET frames == currentDayConfig.frames
            currentTimeFrame == find({i \in 1..Len(frames) :
                                         isInTimeFrame(d, minutes, frames[i])})
            isHoliday == DayOf(date) \in holidayList
        IN  IF currentTimeFrame # 0 /\ ~isHoliday
            THEN [status |-> "ok", state |-> "unlock",
                  until |-> Until(toDate(frames[currentTimeFrame].end, 0, d.after, date)),
                  source |-> "frame"]
            ELSE LET refDate == IF isHoliday THEN startOfNextDay(date) ELSE date
                     next == getNextFrame(cc, refDate)
                 IN  [status |-> "ok", state |-> "lock",
                      until |-> IF next.found
                                THEN Until(toDate(next.frame.start, next.offset,
                                                  -d.before, refDate))
                                ELSE NoUntil,
                      source |-> "schedule"]

\* this._currentConfig[weekDay]
dayConfig(cc, weekDay) ==
    IF isArray(cc, weekDay) THEN [isArray |-> TRUE, frames |-> cc[weekDay]]
                            ELSE [isArray |-> FALSE, frames |-> <<>>]

overwriteActiveReversed(cfg, date) ==
    cfg.currentOverwrite.present /\ date > cfg.currentOverwrite.until

\* !!this.config.currentOverwrite && date.getTime() < currentOverwrite.until
overwriteActive(cfg, date) ==
    cfg.currentOverwrite.present /\ date < cfg.currentOverwrite.until

\* the overwrite branch of getConfigForDate
overwriteConfigForDate(cfg) ==
    [status |-> "ok", state |-> cfg.currentOverwrite.state,
     until |-> Until(cfg.currentOverwrite.until), source |-> "overwrite"]

\* the copy with its overwrite left in place
clearedCopyKeepsOverwrite(cfg) == cfg

\* copy = {...this.config}; copy.currentOverwrite = null
clearedCopy(cfg) == [cfg EXCEPT !.currentOverwrite = NoOverwrite]

-----------------------------------------------------------------------------
(* Inputs                                                                  *)

\* Dates lie on the days 0..MaxNowDay, holidays on the days 1..MaxHolidayDay.
MaxNowDay == 2
MaxHolidayDay == 2

\* Frames the Opening-Hours API accepts (0 <= start < end <= 23*60+59).
FrameA == Frame(480, 720)
FrameA2 == Frame(600, 800)
FrameB == Frame(780, 1020)
FrameZ == Frame(0, 60)

\* Frame lists of one weekday as the store returns them, in insertion order:
\* empty, one frame, two overlapping frames, two frames added latest first,
\* a frame that starts at midnight.
FrameLists == {<< >>, <<FrameA>>, <<FrameA, FrameA2>>, <<FrameB, FrameA>>, <<FrameZ>>}

\* The store keeps one row per weekday key 0..6 (0 = Sunday .. 6 = Saturday).
StoreDays == 0..6

Schedules ==
    {cc \in [StoreDays -> FrameLists] :
        /\ cc[0] \in {<< >>, <<FrameA>>}
        /\ cc[6] \in {<< >>, <<FrameA>>}
        /\ \A k \in 3..5 : cc[k] = << >>}

DelayChoices == {0, 15}

MinuteChoices == {0, 30, 465, 480, 600, 720, 735, 900, 1435}

Instants == {d * MinutesPerDay + m : d \in 0..MaxNowDay, m \in MinuteChoices}

HolidaySets == SUBSET (1..MaxHolidayDay)

OverwriteStates == {"lock", "unlock"}

\* Sunday 10:00, Monday 10:00, Tuesday 00:00
OverwriteUntils == {600, MinutesPerDay + 600, 2 * MinutesPerDay}

Overwrites == {NoOverwrite} \cup
              {Overwrite(s, u) : s \in OverwriteStates, u \in OverwriteUntils}

Configs == {[delays |-> [open |-> o, close |-> c], currentOverwrite |-> ow] :
               o \in DelayChoices, c \in DelayChoices, ow \in Overwrites}

-----------------------------------------------------------------------------
(* getConfigForDate as one step: the holiday lookup answers at once        *)

\* The scheduler once its configuration and the opening hours are loaded,
\* with any accepted schedule, delays, overwrite, holiday list and date.
InitEval ==
    /\ currentConfig \in Schedules
    /\ config \in Configs
    /\ holidays \in HolidaySets
    /\ tz = Calendar.utcOffset
    /\ now \in Instants
    /\ persisted = NotPersisted
    /\ result = NoResult
    /\ pause = FALSE
    /\ evals = << >>
    /\ lastEmit = NoEmit
    /\ cfgVer = 0
    /\ DoorIdle
    /\ SchedulerAlive
    /\ RpcIdle
    /\ HolidayIdle
    /\ StoreLoaded
    /\ CacheIdle
    /\ TickerIdle

\* Scheduler.setConfig(cfg, write): the in-memory slot and, with write, the file
setConfigPersisted(cfg, write) == IF write THEN [written |-> TRUE, value |-> cfg] ELSE persisted

\* await getConfigForDate(now)
Evaluate ==
    /\ result.status = "none"
    /\ IF overwriteActive(config, now)
       THEN /\ result' = Returned(overwriteConfigForDate(config), now,
                                  config.currentOverwrite, cfgVer)
            /\ UNCHANGED <<config, persisted, cfgVer>>
       ELSE LET cleared == IF config.currentOverwrite.present THEN clearedCopy(config) ELSE config
                r == weeklyConfigForDate(now, dayConfig(currentConfig, isoWeekday(now)),
                                         currentConfig, cleared,
                                         getHolidaysForYear(getUTCFullYear(now)))
            IN  /\ config' = cleared
                /\ persisted' = setConfigPersisted(cleared, config.currentOverwrite.present)
                /\ cfgVer' = IF config.currentOverwrite.present THEN cfgVer + 1 ELSE cfgVer
                /\ result' = Returned(r, now, config.currentOverwrite, cfgVer')
    /\ UNCHANGED <<currentConfig, holidays, tz, now, pause, evals, lastEmit>>
    /\ UNCHANGED <<doorVars, cacheVars, tickerVars, lifeVars, holidayVars, storeVars, rpcVars>>

NextEval == Evaluate

SpecEval == InitEval /\ [][NextEval]_vars

-----------------------------------------------------------------------------
(* The running scheduler: ticks, overwrite calls and suspended evaluations  *)

\* Caps on the calls in flight and on the setOverwrite / clearOverwrite calls of
\* one behaviour; the code has neither limit.
MaxInFlight == 2
MaxConfigChanges == 2

\* Sunday 23:55, Monday 10:00, Monday 12:00
ProcInstants == {1435, MinutesPerDay + 600, MinutesPerDay + 720}

\* Monday 08:00-12:00, nothing on the other days
ProcSchedules == {cc \in Schedules : cc[1] = <<FrameA>>
                                     /\ \A k \in StoreDays \ {1} : cc[k] = << >>}

ProcUntils == {MinutesPerDay + 600, MinutesPerDay + 720}

\* The scheduler once its configuration (without an overwrite) and the opening
\* hours are loaded.
Init ==
    /\ currentConfig \in ProcSchedules
    /\ config \in {c \in Configs : c.delays.open = 0 /\ c.delays.close = 0
                                   /\ ~c.currentOverwrite.present}
    /\ holidays \in {{}, {1}}
    /\ tz = Calendar.utcOffset
    /\ now = 1435
    /\ persisted = NotPersisted
    /\ result = NoResult
    /\ pause = FALSE
    /\ evals = << >>
    /\ lastEmit = NoEmit
    /\ cfgVer = 0
    /\ DoorIdle
    /\ SchedulerAlive
    /\ RpcIdle
    /\ HolidayIdle
    /\ StoreLoaded
    /\ CacheIdle
    /\ TickerIdle

\* the result slot of a call that has not computed it yet
NotYet == [status |-> "none", state |-> "lock", until |-> NoUntil, source |-> "none"]

\* A suspended call whose awaited promise is already resolved: its
\* continuation runs before any timer, request or network reply is handled.
MicrotaskPending == \E i \in 1..Len(evals) : evals[i].ready

\* this._state$.next(state): a Subject that has completed drops the value
Emitted(state, source, origin, until, ver) ==
    IF completed
    THEN lastEmit
    ELSE [state |-> state, source |-> source, origin |-> origin, until |-> until,
          at |-> now, ver |-> ver]

\* getConfigForDate(date) up to its first suspension, called from origin.
\* cfg, file and ver are the configuration, the written configuration and the
\* setConfig count the call finds; ready tells whether the holiday list is
\* served from the cache.
BeginAt(origin, date, cfg, file, ver, ready) ==
    IF overwriteActive(cfg, date)
    THEN /\ evals' = Append(evals, [origin |-> origin, date |-> date, ready |-> TRUE,
                                    branch |-> "overwrite",
                                    res |-> overwriteConfigForDate(cfg),
                                    dayConfig |-> dayConfig(currentConfig, isoWeekday(date)),
                                    seen |-> cfg.currentOverwrite, ver |-> ver])
         /\ config' = cfg
         /\ cfgVer' = ver
         /\ persisted' = file
    ELSE LET expired == cfg.currentOverwrite.present
             cleared == IF expired THEN clearedCopy(cfg) ELSE cfg
         IN  /\ config' = cleared
             /\ cfgVer' = IF expired THEN ver + 1 ELSE ver
             /\ persisted' = IF expired THEN setConfigPersisted(cleared, TRUE) ELSE file
             /\ evals' = Append(evals, [origin |-> origin, date |-> date, ready |-> ready,
                                        branch |-> "weekly",
                                        res |-> NotYet,
                                        dayConfig |-> dayConfig(currentConfig, isoWeekday(date)),
                                        seen |-> cfg.currentOverwrite, ver |-> cfgVer'])

\* getConfigForDate(new Date())
Begin(origin, cfg, file, ver, ready) == BeginAt(origin, now, cfg, file, ver, ready)

\* The ticker subscription's callback (_setupInterval)
Tick ==
    /\ tickerSubscription = "open"
    /\ ~MicrotaskPending
    /\ Len(evals) < MaxInFlight
    /\ IF pause
       THEN UNCHANGED <<config, persisted, evals, cfgVer>>
       ELSE \E ready \in BOOLEAN : Begin("tick", config, persisted, cfgVer, ready)
    /\ UNCHANGED <<currentConfig, holidays, tz, now, result, pause, lastEmit>>
    /\ UNCHANGED <<doorVars, cacheVars, tickerVars, lifeVars, holidayVars, storeVars, rpcVars>>

\* Scheduler.setOverwrite(state, until)
SetOverwrite(state, until) ==
    /\ ~MicrotaskPending
    /\ cfgVer < MaxConfigChanges
    /\ config' = [config EXCEPT !.currentOverwrite = Overwrite(state, until)]
    /\ persisted' = setConfigPersisted(config', TRUE)
    /\ cfgVer' = cfgVer + 1
    /\ lastEmit' = Emitted(state, "overwrite", "setOverwrite", Until(until), cfgVer')
    /\ UNCHANGED <<currentConfig, holidays, tz, now, result, pause, evals>>
    /\ UNCHANGED <<doorVars, cacheVars, tickerVars, lifeVars, holidayVars, storeVars, rpcVars>>

\* Scheduler.clearOverwrite() up to its await
ClearOverwrite ==
    /\ ~MicrotaskPending
    /\ cfgVer < MaxConfigChanges
    /\ Len(evals) < MaxInFlight
    /\ \E ready \in BOOLEAN :
          Begin("clearOverwrite", clearedCopy(config),
                setConfigPersisted(clearedCopy(config), TRUE), cfgVer + 1, ready)
    /\ UNCHANGED <<currentConfig, holidays, tz, now, result, pause, lastEmit>>
    /\ UNCHANGED <<doorVars, cacheVars, tickerVars, lifeVars, holidayVars, storeVars, rpcVars>>

\* GET /status of the door API: getConfigForDate(new Date()) for the response
Status ==
    /\ ~MicrotaskPending
    /\ Len(evals) < MaxInFlight
    /\ \E ready \in BOOLEAN : Begin("status", config, persisted, cfgVer, ready)
    /\ UNCHANGED <<currentConfig, holidays, tz, now, result, pause, lastEmit>>
    /\ UNCHANGED <<doorVars, cacheVars, tickerVars, lifeVars, holidayVars, storeVars, rpcVars>>

Without(s, i) == [j \in 1..(Len(s) - 1) |-> IF j < i THEN s[j] ELSE s[j + 1]]

\* The continuation of a suspended getConfigForDate call and of its caller:
\* the rest of the evaluation, then this._state$.next(desiredState.state) in
\* the tick callback and in clearOverwrite
Resume(i) ==
    /\ i \in 1..Len(evals)
    /\ evals[i].ready \/ ~MicrotaskPending
    /\ LET e == evals[i]
           r == IF e.branch = "overwrite" THEN e.res
                ELSE weeklyConfigForDate(e.date, e.dayConfig, currentConfig, config,
                                         getHolidaysForYear(getUTCFullYear(e.date)))
       IN  /\ result' = Returned(r, e.date, e.seen, e.ver)
           /\ lastEmit' = IF r.status = "ok" /\ e.origin \notin {"status", "test"}
                          THEN Emitted(r.state, r.source, e.origin, r.until, e.ver)
                          ELSE lastEmit
    /\ evals' = Without(evals, i)
    /\ UNCHANGED <<currentConfig, config, holidays, tz, now, persisted, pause, cfgVer>>
    /\ UNCHANGED <<doorVars, cacheVars, tickerVars, lifeVars, holidayVars, storeVars, rpcVars>>

\* Scheduler.pause(pause)
Pause(p) ==
    /\ ~MicrotaskPending
    /\ pause' = p
    /\ UNCHANGED <<currentConfig, config, holidays, tz, now, persisted, result,
                   evals, lastEmit, cfgVer>>
    /\ UNCHANGED <<doorVars, cacheVars, tickerVars, lifeVars, holidayVars, storeVars, rpcVars>>

\* The wall clock moves on.
Advance ==
    /\ ~MicrotaskPending
    /\ \E t \in ProcInstants : t > now /\ now' = t
    /\ UNCHANGED <<currentConfig, config, holidays, tz, persisted, result, pause,
                   evals, lastEmit, cfgVer>>
    /\ UNCHANGED <<doorVars, cacheVars, tickerVars, lifeVars, holidayVars, storeVars, rpcVars>>

\* Scheduler.onDestroy()
OnDestroy ==
    /\ ~MicrotaskPending
    /\ ~completed
    /\ completed' = TRUE
    /\ UNCHANGED tickerSubscription
    /\ UNCHANGED <<currentConfig, config, holidays, tz, now, persisted, result, pause,
                   evals, lastEmit, cfgVer>>
    /\ UNCHANGED <<doorVars, cacheVars, tickerVars, holidayVars, storeVars, rpcVars>>

Next ==
    \/ Tick
    \/ \E s \in OverwriteStates, u \in ProcUntils : SetOverwrite(s, u)
    \/ ClearOverwrite
    \/ \E i \in 1..MaxInFlight : Resume(i)
    \/ \E p \in BOOLEAN : Pause(p)
    \/ Advance

Spec == Init /\ [][Next]_vars

\* The scheduler with the door API's status requests next to the ticks
NextStatus ==
    \/ Tick
    \/ Status
    \/ \E s \in OverwriteStates, u \in ProcUntils : SetOverwrite(s, u)
    \/ \E i \in 1..MaxInFlight : Resume(i)
    \/ Advance

\* The loaded scheduler in a year without holidays
InitStatus == Init /\ holidays = {}

SpecStatus == InitStatus /\ [][NextStatus]_vars

\* The scheduler up to and after its destruction
NextTeardown == Next \/ OnDestroy

SpecTeardown == Init /\ [][NextTeardown]_vars

-----------------------------------------------------------------------------
(* What the claims speak of, stated without the scheduler's operators      *)

\* The frames the store holds for the weekday of a date (store key 0 is Sunday).
FramesOfWeekday(cc, date) == cc[isoWeekday(date) % 7]

\* minute lies in [f.start - delay.before, f.end + delay.after)
InWindow(f, cfg, minute) ==
    f.start - cfg.delays.open <= minute /\ minute < f.end + cfg.delays.close

\* The call found an overwrite whose until was still ahead of its date.
FoundActiveOverwrite(r) == r.seen.present /\ r.date < r.seen.until

\* A call has returned or thrown.
Finished(r) == r.status # "none"

\* C1: a call that finds an overwrite with date < until returns the overwrite's
\* state and until, whatever the schedule, the delays and the holidays are.
C1_OverwritePrecedence ==
    (Finished(result) /\ FoundActiveOverwrite(result)) =>
        /\ result.status = "ok"
        /\ result.state = result.seen.state
        /\ result.until = Until(result.seen.until)

\* An active overwrite says lock inside a frame on a day that is no holiday,
\* where the weekly schedule alone says unlock.
C1_Witness ==
    /\ Finished(result) /\ FoundActiveOverwrite(result)
    /\ result.seen.state = "lock" /\ result.state = "lock"
    /\ isoWeekday(result.date) = 1
    /\ DayOf(result.date) \notin holidays
    /\ \E i \in 1..Len(currentConfig[1]) :
          InWindow(currentConfig[1][i], config, MinuteOfDay(result.date))

\* C2: without an active overwrite and off holidays the call returns unlock
\* exactly if a frame of the weekday has the minute in its delay-adjusted
\* window, and lock otherwise.
C2_UnlockIffInWindow ==
    (Finished(result) /\ ~FoundActiveOverwrite(result)
        /\ DayOf(result.date) \notin holidays) =>
        LET frames == FramesOfWeekday(currentConfig, result.date)
            inSome == \E i \in 1..Len(frames) :
                          InWindow(frames[i], config, MinuteOfDay(result.date))
        IN  /\ result.status = "ok"
            /\ result.state = IF inSome THEN "unlock" ELSE "lock"

\* C2 on the weekdays whose frame list the scheduler finds (Monday..Saturday).
C2_MondayToSaturday ==
    isoWeekday(result.date) # 7 => C2_UnlockIffInWindow

\* C3: an unlock from the weekly schedule lasts until the end of the first
\* frame of the day whose window holds the minute, plus delay.after, on the
\* date of the call.
C3_UnlockUntilFrameEnd ==
    (Finished(result) /\ ~FoundActiveOverwrite(result) /\ result.state = "unlock") =>
        LET frames == FramesOfWeekday(currentConfig, result.date)
            minute == MinuteOfDay(result.date)
        IN  \E i \in 1..Len(frames) :
               /\ InWindow(frames[i], config, minute)
               /\ \A j \in 1..(i - 1) : ~InWindow(frames[j], config, minute)
               /\ result.until = Until(DayOf(result.date) * MinutesPerDay
                                          + frames[i].end + config.delays.close)

\* An unlock inside two overlapping frames with a delay after the end.
C3_Witness ==
    /\ Finished(result) /\ ~FoundActiveOverwrite(result) /\ result.state = "unlock"
    /\ config.delays.close > 0
    /\ LET frames == FramesOfWeekday(currentConfig, result.date)
       IN  /\ Len(frames) = 2
           /\ \A i \in 1..2 : InWindow(frames[i], config, MinuteOfDay(result.date))
           /\ frames[1].end # frames[2].end

\* The door state the weekly schedule gives for a date: unlock inside a frame
\* window of the weekday on a day that is no holiday, lock otherwise.
WeeklyState(cc, cfg, date) ==
    LET frames == FramesOfWeekday(cc, date)
    IN  IF /\ DayOf(date) \notin holidays
           /\ \E i \in 1..Len(frames) : InWindow(frames[i], cfg, MinuteOfDay(date))
        THEN "unlock" ELSE "lock"

\* C4: on a holiday, without an active overwrite, the call returns lock, also
\* inside a frame of the weekday.
C4_HolidayLocks ==
    (Finished(result) /\ ~FoundActiveOverwrite(result)
        /\ DayOf(result.date) \in holidays) =>
        (result.status = "ok" /\ result.state = "lock")

\* C4 for the dates whose UTC year is their local year, Monday..Saturday.
C4_SameUtcYear ==
    (isoWeekday(result.date) # 7
        /\ getUTCFullYear(result.date) = YearOf(DayOf(result.date))) => C4_HolidayLocks

\* The instants later than date at which a frame becomes active
\* (start - delay.before), on the day of ref and the ScanDays days after it.
Activations(cc, cfg, date, ref) ==
    LET onDay(d) == {d * MinutesPerDay + FramesOfWeekday(cc, d * MinutesPerDay)[i].start
                        - cfg.delays.open :
                        i \in 1..Len(FramesOfWeekday(cc, d * MinutesPerDay))}
        all == UNION {onDay(d) : d \in DayOf(ref)..(DayOf(ref) + ScanDays)}
    IN  {a \in all : a > date}

Earliest(S) == CHOOSE a \in S : \A b \in S : a <= b

\* C5: a lock from the weekly schedule lasts until the earliest frame that
\* becomes active after now, searched from now (from the start of the next day
\* if now is a holiday) up to 7 days ahead; without such a frame until is null.
C5_LockUntilNextFrame ==
    (Finished(result) /\ ~FoundActiveOverwrite(result)
        /\ result.status = "ok" /\ result.state = "lock") =>
        LET ref == IF DayOf(result.date) \in holidays
                   THEN startOfNextDay(result.date) ELSE result.date
            acts == Activations(currentConfig, config, result.date, ref)
        IN  result.until = IF acts = {} THEN NoUntil ELSE Until(Earliest(acts))

\* C6: the until of a lock from the weekly schedule never lies on a holiday.
C6_LockUntilOffHolidays ==
    (Finished(result) /\ ~FoundActiveOverwrite(result)
        /\ result.status = "ok" /\ result.state = "lock" /\ result.until.defined) =>
        DayOf(result.until.t) \notin holidays

\* C7: a call that finds an expired overwrite leaves currentOverwrite null,
\* has the cleared configuration written, and returns what the weekly schedule
\* gives for the date.
C7_LazyExpiry ==
    (Finished(result) /\ result.seen.present /\ result.date >= result.seen.until) =>
        /\ ~config.currentOverwrite.present
        /\ persisted.written /\ persisted.value = config
        /\ result.status = "ok"
        /\ result.source # "overwrite"
        /\ result.state = WeeklyState(currentConfig, config, result.date)

\* C7 without the returned value: the overwrite is cleared and the cleared
\* configuration is written.
C7_ClearsAndPersists ==
    (Finished(result) /\ result.seen.present /\ result.date >= result.seen.until) =>
        /\ ~config.currentOverwrite.present
        /\ persisted.written /\ persisted.value = config
        /\ result.source # "overwrite"

-----------------------------------------------------------------------------
(* Claims about the running scheduler                                      *)

\* C8: no returned and no emitted state is taken from an overwrite whose until
\* is not ahead of the wall clock at that moment.
C8_NoExpiredOverwriteReported ==
    /\ (Finished(result) /\ result.source = "overwrite") => result.until.t > result.date
    /\ lastEmit.source = "overwrite" => lastEmit.until.t > lastEmit.at

\* C8 for the values getConfigForDate returns.
C8_ReturnedOnly ==
    (Finished(result) /\ result.source = "overwrite") => result.until.t > result.date

\* The getConfigForDate calls of tick callbacks that have not finished.
TickEvaluations == {i \in 1..Len(evals) : evals[i].origin = "tick"}

\* C9: at most one tick-driven evaluation is in flight at any time.
C9_OneEvaluationInFlight == Cardinality(TickEvaluations) <= 1

\* C10: each emitted state was computed from a configuration no older than the
\* one behind the state emitted before it, and no older than the configuration
\* in force when it is emitted.
C10_EmissionsNeverStale ==
    [][lastEmit' # lastEmit =>
          (lastEmit'.ver >= lastEmit.ver /\ lastEmit'.ver >= cfgVer)]_vars

-----------------------------------------------------------------------------
(* The door controller, the actuator RPC client and the door API.          *)
(* The scheduler is their environment here: Scheduler.state may deliver    *)
(* any door state at any time (ticks, setOverwrite, clearOverwrite).       *)

\* Reply tokens _generateUUID can return, and the manual open requests that
\* may be pending at once; the code limits neither.
MaxTokens == 3
MaxOpens == 2

Tokens == 1..MaxTokens

\* DoorState: what Scheduler.state carries and what the board understands
DoorStates == {"lock", "unlock", "open"}

\* DoorControllerRPC._generateUUID(): two random base-36 fragments.  Two draws
\* whose subscriptions are alive together are taken to differ.
generateUUID(live) == Tokens \ live

\* MqttService.subscribe(reply): does the subscription on the reply topic of
\* token tok see a message published on the reply topic of token topic?
matchesAnyTopic(topic, tok) == TRUE

matches(topic, tok) == topic = tok

\* take(1) / timeout(timeoutMs): the subscription is torn down with the first
\* message and with the timeout error
subsKeptAfterSettle(live, tok) == live

subsAfterSettle(live, tok) == live \ {tok}

\* DoorController: the flag once the awaited board call has settled
\* (the catch clause swallows a rejection, then running = false)
runningAfterSettleNoCatch(outcome) == outcome = "rejected"

runningAfterSettle(outcome) == FALSE

Call(tok, method, owner) == [tok |-> tok, method |-> method, owner |-> owner]

Happened(kind, tok, owner, outcome) ==
    [kind |-> kind, tok |-> tok, owner |-> owner, outcome |-> outcome]

\* DoorControllerRPC._call(method) up to the promise it returns: subscribe to
\* the reply topic, then publish the request
StartCall(method, owner, tok, others, live) ==
    /\ calls' = others \cup {Call(tok, method, owner)}
    /\ subs' = live \cup {tok}

schedulerVars == <<currentConfig, config, holidays, tz, now, persisted, result,
                   evals, lastEmit, cfgVer>>

\* The subscriber of Scheduler.state in DoorController._runServer
StateReceived(state) ==
    /\ IF running
       THEN /\ event' = Happened("received", 0, "controller", "skipped")
            /\ UNCHANGED <<running, calls, subs>>
       ELSE \E tok \in generateUUID(subs) :
               /\ running' = TRUE
               /\ StartCall(state, "controller", tok, calls, subs)
               /\ event' = Happened("received", tok, "controller", "called")
    /\ UNCHANGED <<isOpen, holds, pause, schedulerVars>>
    /\ UNCHANGED <<cacheVars, tickerVars, lifeVars, holidayVars, storeVars, rpcVars>>

\* API.open up to await this._board.open()
ApiOpen ==
    /\ holds + Cardinality({c \in calls : c.owner = "open"}) < MaxOpens
    /\ \E tok \in generateUUID(subs) :
          /\ StartCall("open", "open", tok, calls, subs)
          /\ event' = Happened("request", tok, "open", "called")
    /\ isOpen' = TRUE
    /\ pause' = TRUE
    /\ UNCHANGED <<running, holds, schedulerVars>>
    /\ UNCHANGED <<cacheVars, tickerVars, lifeVars, holidayVars, storeVars, rpcVars>>

\* API.reset (behind GuardOpen) up to await this._board.lock()
ApiReset ==
    /\ ~isOpen
    /\ \A c \in calls : c.owner \notin {"reset", "resetUnlock"}
    /\ \E tok \in generateUUID(subs) :
          /\ StartCall("lock", "reset", tok, calls, subs)
          /\ event' = Happened("request", tok, "reset", "called")
    /\ pause' = TRUE
    /\ UNCHANGED <<running, isOpen, holds, schedulerVars>>
    /\ UNCHANGED <<cacheVars, tickerVars, lifeVars, holidayVars, storeVars, rpcVars>>

\* The promise of call c settles, through a message on the reply topic of token
\* topic or through the timer of that token, and the code awaiting it goes on.
Settle(c, kind, topic, outcome) ==
    /\ event' = Happened(kind, topic, c.owner, outcome)
    /\ CASE c.owner = "controller" ->
              /\ running' = runningAfterSettle(outcome)
              /\ calls' = calls \ {c}
              /\ subs' = subsAfterSettle(subs, c.tok)
              /\ UNCHANGED <<isOpen, holds, pause>>
         [] c.owner = "open" ->
              /\ calls' = calls \ {c}
              /\ subs' = subsAfterSettle(subs, c.tok)
              /\ IF outcome = "resolved"
                 THEN holds' = holds + 1 /\ UNCHANGED <<isOpen, pause>>
                 ELSE isOpen' = FALSE /\ pause' = FALSE /\ UNCHANGED holds
              /\ UNCHANGED running
         [] c.owner = "reset" ->
              /\ \E desired \in {"lock", "unlock"} :
                    IF outcome = "resolved" /\ desired = "unlock"
                    THEN /\ \E tok \in generateUUID(subs) :
                               StartCall("unlock", "resetUnlock", tok, calls \ {c},
                                         subsAfterSettle(subs, c.tok))
                         /\ UNCHANGED pause
                    ELSE /\ calls' = calls \ {c}
                         /\ subs' = subsAfterSettle(subs, c.tok)
                         /\ pause' = FALSE
              /\ UNCHANGED <<running, isOpen, holds>>
         [] OTHER ->
              /\ calls' = calls \ {c}
              /\ subs' = subsAfterSettle(subs, c.tok)
              /\ pause' = FALSE
              /\ UNCHANGED <<running, isOpen, holds>>
    /\ UNCHANGED schedulerVars
    /\ UNCHANGED <<cacheVars, tickerVars, lifeVars, holidayVars, storeVars, rpcVars>>

\* A message (any payload) is published on the reply topic of token topic and
\* reaches the subscription of a call.
ReplyArrives(topic) ==
    \E c \in calls :
       /\ c.tok \in subs
       /\ matches(topic, c.tok)
       /\ Settle(c, "reply", topic, "resolved")

\* A message on a reply topic nobody is subscribed to
StrayReply(topic) ==
    /\ \A c \in calls : ~(c.tok \in subs /\ matches(topic, c.tok))
    /\ event' = Happened("stray", topic, "none", "ignored")
    /\ UNCHANGED <<running, calls, subs, isOpen, holds, pause, schedulerVars>>
    /\ UNCHANGED <<cacheVars, tickerVars, lifeVars, holidayVars, storeVars, rpcVars>>

\* timeout(timeoutMs) of the call on token tok fires
Timeout(tok) ==
    \E c \in calls :
       /\ c.tok = tok
       /\ tok \in subs
       /\ Settle(c, "timeout", tok, "rejected")

\* The 10 s timer API.open arms after the board opened
HoldTimerFires ==
    /\ holds > 0
    /\ holds' = holds - 1
    /\ pause' = FALSE
    /\ isOpen' = FALSE
    /\ event' = Happened("hold", 0, "open", "released")
    /\ UNCHANGED <<running, calls, subs, schedulerVars>>
    /\ UNCHANGED <<cacheVars, tickerVars, lifeVars, holidayVars, storeVars, rpcVars>>

InitDoor ==
    /\ currentConfig \in ProcSchedules
    /\ config \in {c \in Configs : c.delays.open = 0 /\ c.delays.close = 0
                                   /\ ~c.currentOverwrite.present}
    /\ holidays = {}
    /\ tz = Calendar.utcOffset
    /\ now = 1435
    /\ persisted = NotPersisted
    /\ result = NoResult
    /\ pause = FALSE
    /\ evals = << >>
    /\ lastEmit = NoEmit
    /\ cfgVer = 0
    /\ DoorIdle
    /\ SchedulerAlive
    /\ RpcIdle
    /\ HolidayIdle
    /\ StoreLoaded
    /\ CacheIdle
    /\ TickerIdle

NextDoor ==
    \/ \E state \in DoorStates : StateReceived(state)
    \/ ApiOpen
    \/ ApiReset
    \/ \E topic \in Tokens : ReplyArrives(topic)
    \/ \E topic \in Tokens : StrayReply(topic)
    \/ \E tok \in Tokens : Timeout(tok)
    \/ HoldTimerFires

SpecDoor == InitDoor /\ [][NextDoor]_vars

\* Every timeout timer that stays armed fires.
FairSpecDoor == SpecDoor /\ \A tok \in Tokens : WF_vars(Timeout(tok))

-----------------------------------------------------------------------------
(* Claims about the controller and the actuator client                     *)

\* The evaluation a tick started finishes in this step.
TickFinishes(i) ==
    /\ i \in 1..Len(evals)
    /\ evals[i].origin = "tick"
    /\ evals' = Without(evals, i)

\* C11: every tick that fires while the scheduler is not paused ends with the
\* state its evaluation arrived at being pushed to the state stream, also when
\* that state was the last one emitted.
C11_EveryTickEmits ==
    [][\A i \in 1..MaxInFlight :
          TickFinishes(i) => /\ result'.status = "ok"
                             /\ lastEmit'.origin = "tick"
                             /\ lastEmit'.state = result'.state
                             /\ lastEmit'.ver = evals[i].ver]_vars

\* The same on the six weekdays the scheduler has a frame list for.
C11_MondayToSaturday ==
    [][\A i \in 1..MaxInFlight :
          (TickFinishes(i) /\ isoWeekday(evals[i].date) # 7)
              => /\ result'.status = "ok"
                 /\ lastEmit'.origin = "tick"
                 /\ lastEmit'.state = result'.state
                 /\ lastEmit'.ver = evals[i].ver]_vars

\* The controller passes every state it receives to the board unless a call of
\* its own is in flight, whatever became of the call before.
C11_ControllerResends ==
    /\ running <=> \E c \in calls : c.owner = "controller"
    /\ (event.kind = "received" /\ event.outcome = "called")
          => Call(event.tok, "lock", "controller") \in calls
             \/ Call(event.tok, "unlock", "controller") \in calls
             \/ Call(event.tok, "open", "controller") \in calls
    /\ (event.kind = "received" /\ event.outcome = "skipped")
          => \E c \in calls : c.owner = "controller"

\* The controller's board call was rejected in the last step.
ControllerCallFailed == event.owner = "controller" /\ event.outcome = "rejected"

\* C12: a rejected board call of the controller leaves the scheduler untouched
\* and the in-flight flag cleared; the flag is set exactly while a call of the
\* controller is in flight (so the next state received is sent to the board),
\* and once set it is always released again.
C12_FailureContained ==
    /\ [](ControllerCallFailed => ~running)
    /\ [](running <=> \E c \in calls : c.owner = "controller")
    /\ [][ControllerCallFailed' => UNCHANGED <<schedulerVars, pause>>]_vars
    /\ (running ~> ~running)

C12_Witness == ControllerCallFailed /\ event.kind = "timeout" /\ ~running

\* C13: at no time are two board calls (lock, unlock or open) in flight, whoever
\* made them: the controller for a state of the scheduler, API.open or API.reset.
C13_OneActuatorCall == Cardinality(calls) <= 1

\* Among the controller's own calls there is never more than one in flight, and
\* a state received meanwhile is skipped.
C13_ControllerAlone ==
    /\ Cardinality({c \in calls : c.owner = "controller"}) <= 1
    /\ (event.kind = "received" /\ event.outcome = "skipped") => running

\* The reply tokens of the calls in flight
TokensInFlight == {c.tok : c \in calls}

\* C14: a call settles once: a message on its reply topic resolves it, its
\* timeout rejects it, either removes the call together with its subscription,
\* and every call in flight does settle.  The live reply subscriptions are
\* those of the calls in flight, so there is none when no call is in flight.
C14_SettlesOnceAndUnsubscribes ==
    /\ [](subs = TokensInFlight /\ Cardinality(calls) = Cardinality(subs))
    /\ [](event.kind = "reply" => event.outcome = "resolved")
    /\ [](event.kind = "timeout" => event.outcome = "rejected")
    /\ [][\A tok \in Tokens :
             (event'.kind \in {"reply", "timeout"} /\ event'.tok = tok)
                => (tok \in subs /\ \E c \in calls : c.tok = tok /\ c \notin calls')]_vars
    /\ \A tok \in Tokens : (tok \in subs) ~> (tok \notin subs)

C14_Witness ==
    event.kind = "timeout" /\ event.outcome = "rejected" /\ calls = {} /\ subs = {}

-----------------------------------------------------------------------------
(* The LRU cache                                                           *)

\* Largest configured maxSize and maxAge, last clock reading, and get calls
\* that may wait for the loader at once.
MaxSize == 2
MaxAge == 1
MaxClock == 2
MaxLoads == 1

\* Values callers store: the empty string (falsy) and a non-empty string
Values == {"", "v"}

\* !!value
truthy(value) == value \notin {Undefined, ""}

\* Cache.get(key): this._byId.get(key) || undefined
baseGet(map, key) == IF truthy(map[key]) THEN map[key] ELSE Undefined

\* Cache.delete(key): the map it leaves (the value it returns is baseGet's)
baseDelete(map, key) == IF truthy(map[key]) THEN [map EXCEPT ![key] = Undefined] ELSE map

\* this._created.get(key)
createdGet(times, key) ==
    IF \E i \in 1..Len(times) : times[i].key = key
    THEN [known |-> TRUE, at |-> (CHOOSE e \in {times[i] : i \in 1..Len(times)} : e.key = key).at]
    ELSE [known |-> FALSE, at |-> 0]

\* this._created.set(key, t): a Map keeps the position of a key it already has
createdSet(times, key, t) ==
    IF \E i \in 1..Len(times) : times[i].key = key
    THEN [i \in 1..Len(times) |-> IF times[i].key = key THEN [key |-> key, at |-> t] ELSE times[i]]
    ELSE Append(times, [key |-> key, at |-> t])

\* this._created.delete(key)
createdDelete(times, key) == SelectSeq(times, LAMBDA e : e.key # key)

\* created + this._maxAge < now, false for a creation time that is undefined
expired(createdAt, maxAge, t) == createdAt.known /\ createdAt.at + maxAge < t

\* Array.prototype.indexOf, counting from 1; 0 when the key is not in the list
indexOf(list, key) ==
    IF \E i \in 1..Len(list) : list[i] = key
    THEN CHOOSE i \in 1..Len(list) : list[i] = key /\ \A j \in 1..(i - 1) : list[j] # key
    ELSE 0

\* LRUCache._updateKey(key), in a variant that leaves the list's order alone
updateKeyKeepOrder(list, key) == IF indexOf(list, key) > 0 THEN list ELSE <<key>> \o list

\* LRUCache._updateKey(key)
updateKey(list, key) ==
    <<key>> \o (IF indexOf(list, key) > 0 THEN Without(list, indexOf(list, key)) ELSE list)

CacheOf(map, times, list) == [byId |-> map, created |-> times, lru |-> list]

\* LRUCache.delete(key): the cache it leaves and the value it returns
delete(C, key) ==
    LET value == baseGet(C.byId, key)
    IN  [cache |-> CacheOf(baseDelete(C.byId, key),
                           createdDelete(C.created, key),
                           IF value # Undefined /\ indexOf(C.lru, key) > 0
                           THEN Without(C.lru, indexOf(C.lru, key))
                           ELSE C.lru),
         value |-> value]

\* LRUCache.evict(), first part: the forEach over the creation times
RECURSIVE evictExpired(_, _, _, _, _, _)
evictExpired(C, createdTimes, i, maxAge, t, evicted) ==
    IF i > Len(createdTimes)
    THEN [cache |-> C, evicted |-> evicted]
    ELSE IF expired([known |-> TRUE, at |-> createdTimes[i].at], maxAge, t)
         THEN LET d == delete(C, createdTimes[i].key)
              IN  evictExpired(d.cache, createdTimes, i + 1, maxAge, t,
                               IF truthy(d.value)
                               THEN Append(evicted, <<createdTimes[i].key, d.value>>)
                               ELSE evicted)
         ELSE evictExpired(C, createdTimes, i + 1, maxAge, t, evicted)

\* LRUCache.evict(), second part: the while loop, in a variant that stops one
\* entry late
RECURSIVE evictOverflowLate(_, _, _)
evictOverflowLate(C, maxSize, evicted) ==
    IF Len(C.lru) <= maxSize + 1
    THEN [cache |-> C, evicted |-> evicted, returns |-> TRUE]
    ELSE IF C.lru = << >>
    THEN [cache |-> C, evicted |-> evicted, returns |-> FALSE]
    ELSE LET lastKey == C.lru[Len(C.lru)]
             d == delete(C, lastKey)
         IN  IF d.value = Undefined
             THEN [cache |-> d.cache, evicted |-> evicted, returns |-> FALSE]
             ELSE evictOverflowLate(d.cache, maxSize, Append(evicted, <<lastKey, d.value>>))

\* LRUCache.evict(), second part: the while loop.  When delete returns no
\* value the list keeps its length and the loop never ends (returns = FALSE);
\* so it is with an empty list that is still longer than a negative maxSize,
\* where lastKey is undefined.
RECURSIVE evictOverflow(_, _, _)
evictOverflow(C, maxSize, evicted) ==
    IF Len(C.lru) <= maxSize
    THEN [cache |-> C, evicted |-> evicted, returns |-> TRUE]
    ELSE IF C.lru = << >>
    THEN [cache |-> C, evicted |-> evicted, returns |-> FALSE]
    ELSE LET lastKey == C.lru[Len(C.lru)]
             d == delete(C, lastKey)
         IN  IF d.value = Undefined
             THEN [cache |-> d.cache, evicted |-> evicted, returns |-> FALSE]
             ELSE evictOverflow(d.cache, maxSize, Append(evicted, <<lastKey, d.value>>))

\* LRUCache.evict()
evict(C, opt, t) ==
    LET old == evictExpired(C, C.created, 1, opt.maxAge, t, << >>)
    IN  evictOverflow(old.cache, opt.maxSize, old.evicted)

\* LRUCache.add(key, value)
add(C, opt, key, value, t) ==
    evict(CacheOf([C.byId EXCEPT ![key] = value],
                  createdSet(C.created, key, t),
                  updateKey(C.lru, key)), opt, t)

\* LRUCache.get(key) from the test of value !== undefined on; createdAt is what
\* the call read from _created
finishGet(C, opt, key, value, createdAt, t) ==
    IF value = Undefined
    THEN [cache |-> C, value |-> Undefined]
    ELSE IF expired(createdAt, opt.maxAge, t)
         THEN [cache |-> delete(C, key).cache, value |-> Undefined]
         ELSE [cache |-> CacheOf(C.byId, C.created, updateKey(C.lru, key)), value |-> value]

\* History of touches (an add, or a get that returned a value), kept apart
\* from _lru: key moves to the front, keys the map no longer holds drop out.
Touch(order, key, map) ==
    SelectSeq(<<key>> \o SelectSeq(order, LAMBDA k : k # key),
              LAMBDA k : map[k] # Undefined)

StillStored(order, map) == SelectSeq(order, LAMBDA k : map[k] # Undefined)

\* The cache as the three structures hold it
TheCache == CacheOf(byId, created, lru)

\* What a cache call came to: the value and the evicted pairs it returned, or
\* that it never returned
Ret(op, key, value, evicted, returns, loaded) ==
    [op |-> op, key |-> key, value |-> value, evicted |-> evicted,
     status |-> IF returns THEN "returned" ELSE "diverged", loaded |-> loaded]

\* A call that does not return keeps the thread: nothing else runs afterwards.
Hung == ret.status = "diverged"

SetCache(C) ==
    /\ byId' = C.byId
    /\ created' = C.created
    /\ lru' = C.lru

otherVars == <<currentConfig, config, holidays, tz, now, persisted, result,
               pause, evals, lastEmit, cfgVer, doorVars, tickerVars, lifeVars,
               holidayVars, storeVars, rpcVars>>

\* cache.add(key, value)
Add(key, value) ==
    /\ ~Hung
    /\ \E a \in {add(TheCache, settings, key, value, clock)} :
          /\ SetCache(a.cache)
          /\ touched' = Touch(touched, key, a.cache.byId)
          /\ ret' = Ret("add", key, value, a.evicted, a.returns, FALSE)
    /\ UNCHANGED <<settings, clock, loads, otherVars>>

\* cache.get(key) up to the loader call, or to its end when no loader is called
Get(key) ==
    /\ ~Hung
    /\ LET value == baseGet(byId, key)
           createdAt == createdGet(created, key)
       IN  IF value = Undefined /\ settings.loader
           THEN /\ Len(loads) < MaxLoads
                /\ loads' = Append(loads, [key |-> key, createdAt |-> createdAt])
                /\ ret' = [Ret("get", key, Undefined, << >>, TRUE, FALSE)
                              EXCEPT !.status = "loading"]
                /\ UNCHANGED <<byId, created, lru, touched>>
           ELSE \E g \in {finishGet(TheCache, settings, key, value, createdAt, clock)} :
                   /\ SetCache(g.cache)
                   /\ touched' = IF g.value # Undefined
                                 THEN Touch(touched, key, g.cache.byId)
                                 ELSE StillStored(touched, g.cache.byId)
                   /\ ret' = Ret("get", key, g.value, << >>, TRUE, FALSE)
                   /\ UNCHANGED loads
    /\ UNCHANGED <<settings, clock, otherVars>>

\* The loader's promise resolves with value and the get call goes on.
LoadDone(i, value) ==
    /\ ~Hung
    /\ i \in 1..Len(loads)
    /\ \E a \in {IF truthy(value)
                  THEN add(TheCache, settings, loads[i].key, value, clock)
                  ELSE [cache |-> TheCache, evicted |-> << >>, returns |-> TRUE]} :
          LET key == loads[i].key
              createdAt == IF truthy(value) THEN createdGet(a.cache.created, key)
                           ELSE loads[i].createdAt
          IN  IF a.returns
              THEN \E g \in {finishGet(a.cache, settings, key, value, createdAt, clock)} :
                      /\ SetCache(g.cache)
                      /\ touched' = IF g.value # Undefined
                                    THEN Touch(touched, key, g.cache.byId)
                                    ELSE StillStored(touched, g.cache.byId)
                      /\ ret' = Ret("get", key, g.value, a.evicted, TRUE, TRUE)
              ELSE /\ SetCache(a.cache)
                   /\ touched' = Touch(touched, key, a.cache.byId)
                   /\ ret' = Ret("get", key, Undefined, a.evicted, FALSE, TRUE)
    /\ loads' = Without(loads, i)
    /\ UNCHANGED <<settings, clock, otherVars>>

\* The loader's promise rejects: get rejects with the loader's error.
LoadFails(i) ==
    /\ ~Hung
    /\ i \in 1..Len(loads)
    /\ ret' = [Ret("get", loads[i].key, Undefined, << >>, TRUE, TRUE)
                  EXCEPT !.status = "rejected"]
    /\ loads' = Without(loads, i)
    /\ UNCHANGED <<byId, created, lru, touched, settings, clock, otherVars>>

\* cache.delete(key)
Delete(key) ==
    /\ ~Hung
    /\ \E d \in {delete(TheCache, key)} :
          /\ SetCache(d.cache)
          /\ touched' = StillStored(touched, d.cache.byId)
          /\ ret' = Ret("delete", key, d.value, << >>, TRUE, FALSE)
    /\ UNCHANGED <<settings, clock, loads, otherVars>>

\* cache.evict()
Evict ==
    /\ ~Hung
    /\ \E e \in {evict(TheCache, settings, clock)} :
          /\ SetCache(e.cache)
          /\ touched' = StillStored(touched, e.cache.byId)
          /\ ret' = Ret("evict", "none", Undefined, e.evicted, e.returns, FALSE)
    /\ UNCHANGED <<settings, clock, loads, otherVars>>

\* The timer of _setupGC fires: evict(), then the timer is armed again.
GcTimerFires ==
    /\ ~Hung
    /\ \E e \in {evict(TheCache, settings, clock)} :
          /\ SetCache(e.cache)
          /\ touched' = StillStored(touched, e.cache.byId)
          /\ ret' = Ret("evict", "none", Undefined, e.evicted, e.returns, FALSE)
    /\ UNCHANGED <<settings, clock, loads, otherVars>>

\* Time passes between two calls.
ClockTick ==
    /\ ~Hung
    /\ clock < MaxClock
    /\ clock' = clock + 1
    /\ ret' = NoReturn
    /\ UNCHANGED <<byId, created, lru, touched, settings, loads, otherVars>>

\* new LRUCache(name, logger, {maxSize, maxAge, loader})
NewCache(loaders) ==
    /\ currentConfig \in ProcSchedules
    /\ config \in {c \in Configs : c.delays.open = 0 /\ c.delays.close = 0
                                   /\ ~c.currentOverwrite.present}
    /\ holidays = {}
    /\ tz = Calendar.utcOffset
    /\ now = 1435
    /\ persisted = NotPersisted
    /\ result = NoResult
    /\ pause = FALSE
    /\ evals = << >>
    /\ lastEmit = NoEmit
    /\ cfgVer = 0
    /\ DoorIdle
    /\ SchedulerAlive
    /\ RpcIdle
    /\ HolidayIdle
    /\ StoreLoaded
    /\ TickerIdle
    /\ byId = [k \in Keys |-> Undefined]
    /\ created = << >>
    /\ lru = << >>
    /\ settings \in [maxSize : 1..MaxSize, maxAge : {MaxAge}, loader : loaders]
    /\ clock = 0
    /\ loads = << >>
    /\ ret = NoReturn
    /\ touched = << >>

\* A cache without a loader and its callers
InitCache == NewCache({FALSE})

NextCache ==
    \/ \E key \in Keys, value \in Values : Add(key, value)
    \/ \E key \in Keys : Get(key)
    \/ \E key \in Keys : Delete(key)
    \/ Evict
    \/ GcTimerFires
    \/ ClockTick

SpecCache == InitCache /\ [][NextCache]_vars

\* A cache with a loader, its callers and the loader's answers
InitCacheLoader == NewCache({TRUE})

NextCacheLoader ==
    \/ \E key \in Keys, value \in Values : Add(key, value)
    \/ \E key \in Keys : Get(key)
    \/ \E i \in 1..MaxLoads, value \in Values \cup {Undefined} : LoadDone(i, value)
    \/ \E i \in 1..MaxLoads : LoadFails(i)
    \/ \E key \in Keys : Delete(key)
    \/ Evict
    \/ GcTimerFires
    \/ ClockTick

SpecCacheLoader == InitCacheLoader /\ [][NextCacheLoader]_vars

-----------------------------------------------------------------------------
(* Claims about the LRU cache                                              *)

\* The keys the value map holds an entry for
StoredKeys == {k \in Keys : byId[k] # Undefined}

C16_WithLoader ==
    (ret.status = "returned" /\ (ret.op \in {"add", "evict"} \/ (ret.op = "get" /\ ret.loaded)))
        => Cardinality(StoredKeys) <= settings.maxSize

\* No stored entry has outlived maxAge at the present clock reading.
NothingExpired ==
    \A i \in 1..Len(created) : ~expired([known |-> TRUE, at |-> created[i].at],
                                        settings.maxAge, clock)

\* This step is add(key, ..) of a new key into a cache that is full.
AddOverflows(key) ==
    /\ ret'.op = "add"
    /\ ret'.key = key
    /\ key \notin StoredKeys
    /\ Cardinality(StoredKeys) = settings.maxSize
    /\ NothingExpired

\* The entry touched longest ago
LeastRecentlyTouched == touched[Len(touched)]

\* What an add that overflows the cache has to do: return, having evicted the
\* entry touched longest ago and nothing else.
EvictsLeastRecentlyTouched(key) ==
    /\ ret'.status = "returned"
    /\ ret'.evicted = << <<LeastRecentlyTouched, byId[LeastRecentlyTouched]>> >>
    /\ StoredKeys' = (StoredKeys \ {LeastRecentlyTouched}) \cup {key}

\* C17: an add that makes the size exceed maxSize, with no TTL expiry involved,
\* evicts exactly one entry, the one touched (added, or read by a get that
\* returned it) longest ago.
C17_EvictsLeastRecentlyTouched ==
    [][\A key \in Keys : AddOverflows(key) => EvictsLeastRecentlyTouched(key)]_vars

\* The same when every stored value is non-empty.
C17_TruthyValues ==
    [][\A key \in Keys :
          (AddOverflows(key) /\ \A k \in StoredKeys : truthy(byId[k]))
              => EvictsLeastRecentlyTouched(key)]_vars

\* This step is get(key) of a key the cache holds an entry for, reading no
\* loader.
GetOfStored(key) ==
    /\ ret'.op = "get"
    /\ ret'.key = key
    /\ ~ret'.loaded
    /\ key \in StoredKeys
    /\ createdGet(created, key).known

\* clock - createdAt
Age(key) == clock - createdGet(created, key).at

\* What get has to do with an entry it holds
ReadsWithTtl(key) ==
    IF Age(key) > settings.maxAge
    THEN /\ ret'.value = Undefined
         /\ key \notin StoredKeys'
         /\ indexOf(lru', key) = 0
         /\ ~createdGet(created', key).known
    ELSE /\ ret'.value = byId[key]
         /\ Len(lru') > 0
         /\ lru'[1] = key

\* C18: get(key) of an entry older than maxAge reports the key absent and
\* removes the entry from the value map, the recency list and the creation
\* times; a younger entry is returned and moved to the front of the recency list.
C18_TtlOnRead ==
    [][\A key \in Keys : GetOfStored(key) => ReadsWithTtl(key)]_vars

\* The same for entries whose value is non-empty.
C18_TruthyValues ==
    [][\A key \in Keys : (GetOfStored(key) /\ truthy(byId[key])) => ReadsWithTtl(key)]_vars

\* The cache holds an entry for key that has outlived maxAge.
HoldsExpired(key) ==
    /\ key \in StoredKeys
    /\ createdGet(created, key).known
    /\ Age(key) > settings.maxAge

\* This step is the start of get(key) on a cache with a loader.
GetWithLoader(key) ==
    /\ settings.loader
    /\ ret'.op = "get"
    /\ ret'.key = key
    /\ ~ret'.loaded

\* This step ends a get that returns a non-empty value it had from the loader.
ReturnsLoaded == ret'.op = "get" /\ ret'.loaded /\ ret'.status = "returned"
                 /\ truthy(ret'.value)

\* C19: with a loader configured, get(key) of an absent key and of a key whose
\* entry has outlived maxAge calls the loader; a non-empty result is returned
\* and is in the cache with the present time as its creation time.
C19_LoaderOnMiss ==
    /\ [][\A key \in Keys :
             (GetWithLoader(key) /\ (key \notin StoredKeys \/ HoldsExpired(key)))
                 => ret'.status = "loading"]_vars
    /\ [][ReturnsLoaded => /\ byId'[ret'.key] = ret'.value
                           /\ createdGet(created', ret'.key) = [known |-> TRUE, at |-> clock]]_vars

\* The same without the expired entries: an absent key is loaded.
C19_AbsentKeyIsLoaded ==
    /\ [][\A key \in Keys :
             (GetWithLoader(key) /\ key \notin StoredKeys) => ret'.status = "loading"]_vars
    /\ [][ReturnsLoaded => /\ byId'[ret'.key] = ret'.value
                           /\ createdGet(created', ret'.key) = [known |-> TRUE, at |-> clock]]_vars

\* Without a loader get of an absent key returns undefined.
C19_NoLoader ==
    [][\A key \in Keys :
          (ret'.op = "get" /\ ret'.key = key /\ key \notin StoredKeys)
              => (ret'.status = "returned" /\ ret'.value = Undefined)]_vars

\* This step runs evict(): called directly, by the GC timer, or at the end of
\* add.
EvictRuns == ret'.op \in {"evict", "add"}

\* The value evict() finds under k when it starts: inside add the new value
\* is already in the map.
HeldBefore(k) == IF ret'.op = "add" /\ ret'.key = k THEN ret'.value ELSE byId[k]

KeysBefore == {k \in Keys : HeldBefore(k) # Undefined}

\* The entries older than maxAge when evict() starts; the entry add has just
\* written is new.
ExpiredBefore ==
    {k \in KeysBefore : /\ ~(ret'.op = "add" /\ ret'.key = k)
                        /\ createdGet(created, k).known
                        /\ expired(createdGet(created, k), settings.maxAge, clock)}

\* Touch order when evict() starts, most recent first, without the expired
\* entries.
YoungBefore ==
    SelectSeq(IF ret'.op = "add"
              THEN <<ret'.key>> \o SelectSeq(touched, LAMBDA k : k # ret'.key)
              ELSE touched,
              LAMBDA k : k \notin ExpiredBefore)

\* What evict() has to leave in the cache: of the entries that are not
\* expired, the maxSize most recently touched.
KeptByEvict ==
    {YoungBefore[i] : i \in {j \in 1..Len(YoungBefore) : j <= settings.maxSize}}

\* The result of evict() lists the removed entries, each once, and nothing
\* else.
ReturnsRemoved ==
    /\ \A i, j \in 1..Len(ret'.evicted) : ret'.evicted[i] = ret'.evicted[j] => i = j
    /\ {ret'.evicted[i] : i \in 1..Len(ret'.evicted)}
           = {<<k, HeldBefore(k)>> : k \in KeysBefore \ StoredKeys'}

EvictDoesItsWork ==
    /\ ret'.status = "returned"
    /\ StoredKeys' = KeptByEvict
    /\ ReturnsRemoved

\* C20: evict() returns; it has removed every entry older than maxAge and then
\* least-recently-used entries while more than maxSize were left, and its
\* result holds exactly the (key, value) pairs it removed, each once.
C20_EvictRemovesAndReports == [][EvictRuns => EvictDoesItsWork]_vars

\* The same when every stored value is non-empty.
C20_TruthyValues ==
    [][(EvictRuns /\ \A k \in KeysBefore : truthy(HeldBefore(k))) => EvictDoesItsWork]_vars

-----------------------------------------------------------------------------
(* Ticker.interval: a timeout to the next boundary, then an interval timer  *)

SecondsPerHour == 3600

\* Caps on the subscriptions of one behaviour and on the seconds it lasts; the
\* code has neither limit.
MaxTickerSubs == 2
MaxElapsed == 7

\* interval lengths in seconds, and wall-clock readings at which a behaviour
\* starts: the full hour, one second past it, two seconds before the next
TickerIntervals == {2, 3}
StartSeconds == {0, 1, SecondsPerHour - 2}

\* now.getMinutes() * 60 + now.getSeconds()
secondsOfHour(t) == ((t \div 60) % 60) * 60 + (t % 60)

\* secondsTillNext in a variant that fires at once on a boundary
secondsTillNextOrNow(interval, seconds) == (interval - (seconds % interval)) % interval

\* const secondsTillNext = interval - (seconds % interval)
secondsTillNext(interval, seconds) == interval - (seconds % interval)

\* The closure of one subscription: timeout and timer are its two variables
\* (hasTimeout: the variable timeout holds a handle, not null), the *Armed
\* fields tell whether the runtime still holds the timer; at, count, prev and
\* last record when it was made and when the subscriber got its emissions.
Subscription(interval, t) ==
    [interval |-> interval,
     hasTimeout |-> TRUE,
     timeoutArmed |-> TRUE, timeoutDue |-> t + secondsTillNext(interval, secondsOfHour(t)),
     timerArmed |-> FALSE, timerDue |-> 0,
     closed |-> FALSE,
     at |-> t, count |-> 0, prev |-> 0, last |-> 0]

\* tick(): observer.next() reaches the subscriber unless it has unsubscribed
AfterTick(sub, t) ==
    IF sub.closed THEN sub
    ELSE [sub EXCEPT !.count = sub.count + 1, !.prev = sub.last, !.last = t]

\* the teardown function returned to the Observable
teardown(sub) ==
    IF sub.hasTimeout
    THEN [sub EXCEPT !.closed = TRUE, !.timeoutArmed = FALSE, !.hasTimeout = FALSE]
    ELSE [sub EXCEPT !.closed = TRUE, !.timerArmed = FALSE]

TickerEvent(kind, i, delivered) == [kind |-> kind, sub |-> i, delivered |-> delivered]

\* everything but the ticker
notTickerVars == <<currentConfig, config, holidays, tz, now, persisted, result,
                   pause, evals, lastEmit, cfgVer, doorVars, cacheVars, lifeVars,
                   holidayVars, storeVars, rpcVars>>

\* ticker.interval(interval).subscribe(..)
Subscribe(interval) ==
    /\ Len(tickers) < MaxTickerSubs
    /\ tickers' = Append(tickers, Subscription(interval, wall))
    /\ tevent' = TickerEvent("subscribe", Len(tickers) + 1, FALSE)
    /\ UNCHANGED <<wall, notTickerVars>>

\* The setTimeout callback: tick(), then setInterval.  leaves tells whether
\* the subscriber unsubscribes while it handles the emission.
TimeoutFires(i, leaves) ==
    /\ i \in 1..Len(tickers)
    /\ tickers[i].timeoutArmed
    /\ tickers[i].timeoutDue = wall
    /\ LET ticked == AfterTick(tickers[i], wall)
           left == IF leaves THEN teardown(ticked) ELSE ticked
       IN  tickers' = [tickers EXCEPT ![i] = [left EXCEPT !.timeoutArmed = FALSE,
                                                          !.timerArmed = TRUE,
                                                          !.timerDue = wall + left.interval]]
    /\ tevent' = TickerEvent("timeout", i, ~tickers[i].closed)
    /\ UNCHANGED <<wall, notTickerVars>>

\* The setInterval callback: tick()
IntervalFires(i, leaves) ==
    /\ i \in 1..Len(tickers)
    /\ tickers[i].timerArmed
    /\ tickers[i].timerDue = wall
    /\ LET ticked == AfterTick(tickers[i], wall)
           left == IF leaves /\ ~ticked.closed THEN teardown(ticked) ELSE ticked
       IN  tickers' = [tickers EXCEPT ![i] =
                          [left EXCEPT !.timerDue = IF left.timerArmed
                                                    THEN wall + left.interval
                                                    ELSE left.timerDue]]
    /\ tevent' = TickerEvent("interval", i, ~tickers[i].closed)
    /\ UNCHANGED <<wall, notTickerVars>>

\* subscription.unsubscribe() between two timer callbacks
Unsubscribe(i) ==
    /\ i \in 1..Len(tickers)
    /\ ~tickers[i].closed
    /\ tickers' = [tickers EXCEPT ![i] = teardown(tickers[i])]
    /\ tevent' = TickerEvent("unsubscribe", i, FALSE)
    /\ UNCHANGED <<wall, notTickerVars>>

\* a timer of subscription i is due now
Due(i) ==
    \/ tickers[i].timeoutArmed /\ tickers[i].timeoutDue = wall
    \/ tickers[i].timerArmed /\ tickers[i].timerDue = wall

\* One second passes; timers that are due run first.
Second ==
    /\ \A i \in 1..Len(tickers) : ~Due(i)
    /\ \E start \in StartSeconds : wall < start + MaxElapsed /\ wall >= start
    /\ wall' = wall + 1
    /\ tevent' = NoTick
    /\ UNCHANGED <<tickers, notTickerVars>>

InitTicker ==
    /\ currentConfig \in ProcSchedules
    /\ config \in {c \in Configs : c.delays.open = 0 /\ c.delays.close = 0
                                   /\ ~c.currentOverwrite.present}
    /\ holidays = {}
    /\ tz = Calendar.utcOffset
    /\ now = 1435
    /\ persisted = NotPersisted
    /\ result = NoResult
    /\ pause = FALSE
    /\ evals = << >>
    /\ lastEmit = NoEmit
    /\ cfgVer = 0
    /\ DoorIdle
    /\ SchedulerAlive
    /\ RpcIdle
    /\ HolidayIdle
    /\ StoreLoaded
    /\ CacheIdle
    /\ wall \in StartSeconds
    /\ tickers = << >>
    /\ tevent = NoTick

NextTicker ==
    \/ \E s \in TickerIntervals : Subscribe(s)
    \/ \E i \in 1..MaxTickerSubs, leaves \in BOOLEAN : TimeoutFires(i, leaves)
    \/ \E i \in 1..MaxTickerSubs, leaves \in BOOLEAN : IntervalFires(i, leaves)
    \/ \E i \in 1..MaxTickerSubs : Unsubscribe(i)
    \/ Second

SpecTicker == InitTicker /\ [][NextTicker]_vars

\* seconds past the hour at which subscription sub was made
PastTheHour(sub) == sub.at % SecondsPerHour

\* the wait the first emission of sub is due after
FirstWait(sub) == sub.interval - (PastTheHour(sub) % sub.interval)

\* C21: the first emission of a subscription to interval(s) made t seconds
\* past the hour comes s - (t mod s) seconds after the subscription, which is
\* between 1 and s seconds and never 0; every later emission comes exactly s
\* seconds after the one before; no emission of an open subscription is left
\* out.
C21_PhaseAlignment ==
    \A i \in 1..Len(tickers) :
        LET sub == tickers[i]
        IN  /\ FirstWait(sub) \in 1..sub.interval
            /\ sub.count = 1 => sub.last = sub.at + FirstWait(sub)
            /\ sub.count >= 2 => sub.last = sub.prev + sub.interval
            /\ (~sub.closed /\ sub.count = 0) => wall <= sub.at + FirstWait(sub)
            /\ (~sub.closed /\ sub.count >= 1) => wall <= sub.last + sub.interval

\* a subscription made exactly on a boundary has had its first two emissions
C21_Witness ==
    \E i \in 1..Len(tickers) :
        /\ PastTheHour(tickers[i]) % tickers[i].interval = 0
        /\ tickers[i].count >= 2
        /\ tickers[i].prev = tickers[i].at + tickers[i].interval

\* C22: once a subscription is cancelled, before or after its first tick, it
\* gets no further emission and neither its timeout nor its interval timer is
\* still armed.
C22_CancelStopsTimers ==
    \A i \in 1..Len(tickers) :
        tickers[i].closed => (~tickers[i].timeoutArmed /\ ~tickers[i].timerArmed)

\* The part about emissions: a cancelled subscription gets none.
C22_NoEmissionAfterCancel ==
    [][\A i \in 1..Len(tickers) :
          tickers[i].closed => (tickers'[i].count = tickers[i].count /\ ~(tevent'.sub = i /\ tevent'.delivered))]_vars

\* Cancelling before the first tick leaves no timer behind.
C22_CancelBeforeFirstTick ==
    \A i \in 1..Len(tickers) :
        (tickers[i].closed /\ tickers[i].count = 0)
            => (~tickers[i].timeoutArmed /\ ~tickers[i].timerArmed)

-----------------------------------------------------------------------------
(* Scheduler teardown                                                       *)

\* This step starts an evaluation from the ticker callback.
TickEvaluationStarts ==
    /\ Len(evals') = Len(evals) + 1
    /\ evals'[Len(evals')].origin = "tick"

\* C23: after onDestroy the state stream is completed and the subscription to
\* the ticker is cancelled; nothing more is emitted and the ticker callback
\* starts no further evaluation.
C23_Teardown ==
    /\ [](completed => tickerSubscription = "closed")
    /\ [][completed => (lastEmit' = lastEmit /\ ~TickEvaluationStarts)]_vars

\* The part about the stream: once completed it carries no further state.
C23_NoEmissionAfterDestroy ==
    [][completed => (completed' /\ lastEmit' = lastEmit)]_vars

\* The ticker callback of a destroyed scheduler still clears an expired
\* overwrite and writes the configuration.
C23_NoWriteAfterDestroy ==
    [][(completed /\ TickEvaluationStarts) => persisted' = persisted]_vars

-----------------------------------------------------------------------------
(* HolidayService: the list of a year, through the 'holidaysByYear' cache   *)

\* Lengths of the country code a 'holidays' configuration may carry (0: none)
CountryLengths == {0, 2, 3}

\* what ConfigService.getConfig('holidays') may resolve to
HolidayConfigs == [present : BOOLEAN, enabled : BOOLEAN, country : CountryLengths]

\* the upstream service answers, or the request fails
Upstreams == {"up", "down"}

\* values a promise may carry
Absent == [kind |-> "undefined", days |-> {}]
List(days) == [kind |-> "list", days |-> days]

\* this._enabled = cfg.enabled || true
enabledOrTrue(e) == e \/ TRUE

\* The constructor's handler of the configuration: _enabled afterwards
enabledAfterConfig(enabled, cfg) ==
    LET e == IF cfg.present THEN enabledOrTrue(cfg.enabled) ELSE enabled
        country == IF cfg.present /\ cfg.country # 0 THEN cfg.country ELSE 2
    IN  IF e /\ country # 2 THEN FALSE ELSE e

\* LRUCache.get(year) on the cache without loader and maxAge: get is async, so
\* the caller holds a promise; the promise carries the cached list or undefined
cacheGet(cache, year) ==
    [kind |-> "promise",
     carries |-> IF cache[year].cached THEN List(cache[year].days) ELSE Absent]

\* HolidayService.getHolidaysForYear(year): what the returned promise resolves
\* to, the cache afterwards, and whether the upstream service was asked
getHolidaysForYearCall(enabled, cache, year, upstream) ==
    IF ~enabled
    THEN [value |-> List({}), cache |-> cache, fetched |-> FALSE]
    ELSE LET cachedHolidays == cacheGet(cache, year)
         IN  IF cachedHolidays.kind # "undefined"
             THEN \* return holidays: the async function resolves to what the
                  \* promise carries
                  [value |-> cachedHolidays.carries, cache |-> cache, fetched |-> FALSE]
             ELSE IF upstream = "up"
                  THEN [value |-> List(getHolidaysForYear(year)),
                        cache |-> [cache EXCEPT ![year] =
                                      [cached |-> TRUE, days |-> getHolidaysForYear(year)]],
                        fetched |-> TRUE]
                  ELSE [value |-> List({}), cache |-> cache, fetched |-> TRUE]

HolidayCall(configured, year, upstream, enabled, h) ==
    [called |-> TRUE, configured |-> configured, year |-> year, upstream |-> upstream,
     enabled |-> enabled, kind |-> h.value.kind, days |-> h.value.days,
     fetched |-> h.fetched]

\* getConfigForDate after the await when the holiday service resolved to h:
\* holidays.some on undefined is a TypeError
weeklyConfigWithHolidays(h) ==
    IF h.kind = "undefined" \/ ~dayConfig(currentConfig, isoWeekday(now)).isArray
    THEN [status |-> "throw", state |-> "lock", until |-> NoUntil, source |-> "none"]
    ELSE weeklyConfigForDate(now, dayConfig(currentConfig, isoWeekday(now)),
                             currentConfig, config, h.days)

notHolidayVars == <<currentConfig, config, holidays, tz, now, persisted,
                    pause, evals, lastEmit, cfgVer, doorVars, cacheVars, tickerVars,
                    lifeVars, storeVars, rpcVars>>

\* The 'holidays' configuration arrives: the constructor's handler, which ends
\* with a first getHolidaysForYear call
HolidayConfigLoaded(cfg, upstream) ==
    /\ ~hret.configured
    /\ holidaysEnabled' = enabledAfterConfig(holidaysEnabled, cfg)
    /\ \E h \in {getHolidaysForYearCall(holidaysEnabled', holidayCache,
                                        YearOf(DayOf(now)), upstream)} :
          /\ holidayCache' = h.cache
          /\ hret' = HolidayCall(TRUE, YearOf(DayOf(now)), upstream, holidaysEnabled', h)
    /\ UNCHANGED <<result, notHolidayVars>>

\* await holidayService.getHolidaysForYear(year) by any caller
GetHolidays(year, upstream) ==
    /\ \E h \in {getHolidaysForYearCall(holidaysEnabled, holidayCache, year, upstream)} :
          /\ holidayCache' = h.cache
          /\ hret' = HolidayCall(hret.configured, year, upstream, holidaysEnabled, h)
    /\ UNCHANGED <<holidaysEnabled, result, notHolidayVars>>

\* await getConfigForDate(now) with the holiday service as it is
EvaluateWithService(upstream) ==
    /\ result.status = "none"
    /\ ~overwriteActive(config, now)
    /\ ~config.currentOverwrite.present
    /\ \E h \in {getHolidaysForYearCall(holidaysEnabled, holidayCache,
                                        getUTCFullYear(now), upstream)} :
          /\ holidayCache' = h.cache
          /\ hret' = HolidayCall(hret.configured, getUTCFullYear(now), upstream,
                                 holidaysEnabled, h)
          /\ result' = Returned(weeklyConfigWithHolidays(h.value), now,
                                config.currentOverwrite, cfgVer)
    /\ UNCHANGED <<holidaysEnabled, notHolidayVars>>

InitHoliday ==
    /\ currentConfig \in ProcSchedules
    /\ config \in {c \in Configs : c.delays.open = 0 /\ c.delays.close = 0
                                   /\ ~c.currentOverwrite.present}
    /\ holidays \in HolidaySets
    /\ tz = Calendar.utcOffset
    /\ now \in Instants
    /\ persisted = NotPersisted
    /\ result = NoResult
    /\ pause = FALSE
    /\ evals = << >>
    /\ lastEmit = NoEmit
    /\ cfgVer = 0
    /\ DoorIdle
    /\ SchedulerAlive
    /\ RpcIdle
    /\ HolidayIdle
    /\ StoreLoaded
    /\ CacheIdle
    /\ TickerIdle

NextHoliday ==
    \/ \E cfg \in HolidayConfigs, up \in Upstreams : HolidayConfigLoaded(cfg, up)
    \/ \E y \in Years, up \in Upstreams : GetHolidays(y, up)
    \/ \E up \in Upstreams : EvaluateWithService(up)

SpecHoliday == InitHoliday /\ [][NextHoliday]_vars

\* the last getHolidaysForYear call found the service disabled or the upstream
\* service failing
NoHolidayData == hret.called /\ (~hret.enabled \/ hret.upstream = "down")

\* what getConfigForDate(now) owes when there are no holidays
WithoutHolidays ==
    Returned(weeklyConfigForDate(now, dayConfig(currentConfig, isoWeekday(now)),
                                 currentConfig, config, {}),
             now, config.currentOverwrite, cfgVer)

\* C24: when the holiday service is disabled or the upstream request fails,
\* getHolidaysForYear resolves to the empty list, never to undefined, and
\* getConfigForDate returns what it returns without holidays.
C24_HolidayDegradation ==
    /\ [](NoHolidayData => (hret.kind = "list" /\ hret.days = {}))
    /\ [][(result.status = "none" /\ result'.status # "none" /\ NoHolidayData')
             => result' = WithoutHolidays]_vars

\* The same for the disabled service alone.
C24_DisabledService ==
    /\ []((hret.called /\ ~hret.enabled) => (hret.kind = "list" /\ hret.days = {}))
    /\ [][(result.status = "none" /\ result'.status # "none" /\ hret'.called /\ ~hret'.enabled)
             => result' = WithoutHolidays]_vars

\* The enabled service never asks the upstream service and never has a list.
C24_EnabledNeverFetches ==
    [](hret.called /\ hret.enabled => (~hret.fetched /\ hret.kind = "undefined"))

-----------------------------------------------------------------------------
(* The opening hours store, its API and the scheduler's working copy        *)

\* Cap on the frames of one weekday; the code has no limit.
MaxFramesPerDay == 2

\* 08:20-11:40, strictly inside FrameA; and a frame that ends before it starts
FrameInA == Frame(500, 700)
FrameBackwards == Frame(720, 480)

ApiFrames == {FrameA, FrameInA, FrameBackwards}

\* What OpeningHour.weekDayFromString made of the request's weekday: 1..6 for
\* monday..saturday; 'sunday' is 0 in one revision of the model class and 7 in
\* the other.  Sunday, Monday, and 7.
ApiDays == {0, 1, 7}

\* Sunday 10:00 and Monday 10:00
StoreInstants == {600, MinutesPerDay + 600}

\* OpeningHoursAPI._validateWeekDay(day): TRUE when there is no error
validateWeekDay(day) == ~(day < 0 \/ day > 6)

\* OpeningHoursAPI._validateTimeFrame(frame): TRUE when there is no error
validateTimeFrame(frame) ==
    /\ ~(frame.start < 0 \/ frame.start > 23 * 60 + 59)
    /\ ~(frame.end < 0 \/ frame.end > 23 * 60 + 59)
    /\ ~(frame.start >= frame.end)

\* addTimeFrame's find: start MoreThan(t.start) and end LessThan(t.end)
overlappingFrames(rows, t) ==
    {i \in 1..Len(rows) : rows[i].start > t.start /\ rows[i].end < t.end}

\* OpeningHoursController.getConfig()
getConfig(db) == [d \in StoreDays |-> db[d]]

StoreCall(op, weekday, frame, status, loaded) ==
    [op |-> op, weekday |-> weekday, frame |-> frame, status |-> status,
     loaded |-> loaded]

notStoreVars == <<config, holidays, tz, now, persisted,
                  pause, evals, lastEmit, cfgVer, doorVars, cacheVars, tickerVars,
                  lifeVars, holidayVars, rpcVars>>

\* PUT /config/:weekday
AddTimeToWeekday(day, frame) ==
    /\ IF ~(validateWeekDay(day) /\ validateTimeFrame(frame))
       THEN /\ sevent' = StoreCall("add", day, frame, 400, schedulerLoaded)
            /\ UNCHANGED stored
       ELSE IF overlappingFrames(stored[day], frame) # {}
            THEN /\ sevent' = StoreCall("add", day, frame, 500, schedulerLoaded)
                 /\ UNCHANGED stored
            ELSE /\ Len(stored[day]) < MaxFramesPerDay
                 /\ stored' = [stored EXCEPT ![day] = Append(@, frame)]
                 /\ sevent' = StoreCall("add", day, frame, 204, schedulerLoaded)
    /\ UNCHANGED <<currentConfig, schedulerLoaded, result, notStoreVars>>

\* DELETE /config/:weekday
DeleteTimeFromWeekday(day, frame) ==
    /\ IF ~(validateWeekDay(day) /\ validateTimeFrame(frame))
       THEN /\ sevent' = StoreCall("delete", day, frame, 400, schedulerLoaded)
            /\ UNCHANGED stored
       ELSE /\ stored' = [stored EXCEPT ![day] = SelectSeq(@, LAMBDA f : f # frame)]
            /\ sevent' = StoreCall("delete", day, frame, 204, schedulerLoaded)
    /\ UNCHANGED <<currentConfig, schedulerLoaded, result, notStoreVars>>

\* The constructor's promise chain: setConfig(config), then the working copy
\* is what getConfig() returns
SchedulerLoads ==
    /\ ~schedulerLoaded
    /\ schedulerLoaded' = TRUE
    /\ currentConfig' = getConfig(stored)
    /\ sevent' = StoreCall("load", 0, Frame(0, 0), 0, TRUE)
    /\ UNCHANGED <<stored, result, notStoreVars>>

\* The store's changes stream emits its configuration; the subscriber the
\* constructor sets up after loading takes it as the working copy.  The
\* stream is not part of the store's source; when it emits is left open.
ChangesEmits ==
    /\ currentConfig' = IF schedulerLoaded THEN getConfig(stored) ELSE currentConfig
    /\ sevent' = StoreCall("changes", 0, Frame(0, 0), 0, schedulerLoaded)
    /\ UNCHANGED <<stored, schedulerLoaded, result, notStoreVars>>

\* await getConfigForDate(now); before the configuration is loaded the config
\* getter throws
EvaluateStore ==
    /\ result' = IF ~schedulerLoaded
                 THEN Returned([status |-> "throw", state |-> "lock", until |-> NoUntil,
                                source |-> "none"], now, NoOverwrite, cfgVer)
                 ELSE Returned(weeklyConfigForDate(now, dayConfig(currentConfig, isoWeekday(now)),
                                                   currentConfig, config, {}),
                               now, config.currentOverwrite, cfgVer)
    /\ sevent' = StoreCall("evaluate", 0, Frame(0, 0), 0, schedulerLoaded)
    /\ UNCHANGED <<stored, currentConfig, schedulerLoaded, notStoreVars>>

\* The database after _ensureAllDays, the scheduler's constructor still
\* waiting for its configuration
InitStore ==
    /\ stored = [d \in StoreDays |-> << >>]
    /\ schedulerLoaded = FALSE
    /\ sevent = NoStoreCall
    /\ currentConfig = [d \in StoreDays |-> << >>]
    /\ config \in {c \in Configs : c.delays.open = 0 /\ c.delays.close = 0
                                   /\ ~c.currentOverwrite.present}
    /\ holidays = {}
    /\ tz = Calendar.utcOffset
    /\ now \in StoreInstants
    /\ persisted = NotPersisted
    /\ result = NoResult
    /\ pause = FALSE
    /\ evals = << >>
    /\ lastEmit = NoEmit
    /\ cfgVer = 0
    /\ DoorIdle
    /\ SchedulerAlive
    /\ RpcIdle
    /\ HolidayIdle
    /\ CacheIdle
    /\ TickerIdle

NextStore ==
    \/ \E d \in ApiDays, f \in ApiFrames : AddTimeToWeekday(d, f)
    \/ \E d \in ApiDays, f \in ApiFrames : DeleteTimeFromWeekday(d, f)
    \/ SchedulerLoads
    \/ ChangesEmits
    \/ EvaluateStore

SpecStore == InitStore /\ [][NextStore]_vars

\* C25: whenever the store's changes stream emits, the scheduler's working
\* copy is the store's schedule from then on, and an evaluation requested
\* before the initial schedule has been loaded does not fail.
C25_ChangesStream ==
    /\ sevent.op = "changes" => currentConfig = getConfig(stored)
    /\ sevent.op = "evaluate" /\ ~sevent.loaded => result.status # "throw"

\* What the constructor does provide: once the configuration is loaded, an
\* emission replaces the working copy.
C25_LoadedCopyFollows ==
    sevent.op = "changes" /\ sevent.loaded => currentConfig = getConfig(stored)

\* An evaluation before the initial load fails
C25_EvaluationBeforeLoad ==
    sevent.op = "evaluate" /\ ~sevent.loaded /\ result.status = "throw"

\* two frames share a minute
Overlap(f, g) == f.start < g.end /\ g.start < f.end

\* C26: after any sequence of addTimeFrame and deleteTimeFrame calls no two
\* stored frames of the same weekday overlap, partial overlaps and identical
\* frames included.
C26_NonOverlap ==
    \A d \in StoreDays : \A i, j \in 1..Len(stored[d]) :
        i # j => ~Overlap(stored[d][i], stored[d][j])

\* The rejection itself: an add that is answered with an error leaves the
\* stored frames as they were.
C26_RejectedAddLeavesStore ==
    [][sevent'.op = "add" /\ sevent'.status # 204 => stored' = stored]_vars

\* An add is rejected for an overlap
C26_AddRejected ==
    sevent.op = "add" /\ sevent.status = 500

\* The same frame is stored twice for a weekday
C26_IdenticalFramesStored ==
    \E d \in StoreDays : stored[d] = <<FrameA, FrameA>>

-----------------------------------------------------------------------------
(* The seven weekdays                                                        *)

\* the weekday of the date has no frame list, or an empty one, in the
\* scheduler's working copy
NoFramesThatDay(cc, date) ==
    ~isArray(cc, isoWeekday(date)) \/ cc[isoWeekday(date)] = << >>

\* C27: on each of the seven weekdays getConfigForDate returns a result
\* instead of throwing, and with an empty or missing frame list for the
\* weekday (and no active overwrite) the result is lock.
C27_NeverFails ==
    result.status # "none" =>
        /\ result.status = "ok"
        /\ (~FoundActiveOverwrite(result) /\ NoFramesThatDay(currentConfig, result.date))
               => result.state = "lock"

\* C27 on the weekdays whose key the store provides (Monday..Saturday).
C27_MondayToSaturday ==
    isoWeekday(result.date) # 7 => C27_NeverFails

\* A call on a Sunday is rejected
C27_SundayThrows ==
    isoWeekday(result.date) = 7 /\ result.status = "throw"

\* A call on a weekday with an empty frame list returns lock
C27_EmptyDayLocks ==
    /\ result.status = "ok" /\ result.state = "lock"
    /\ ~FoundActiveOverwrite(result)
    /\ isArray(currentConfig, isoWeekday(result.date))
    /\ currentConfig[isoWeekday(result.date)] = << >>

\* C28: the frame list getConfigForDate consults on a date is the list the
\* store holds for the date's weekday (Sunday under the store's key 0), so a
\* frame accepted for a weekday unlocks the door inside its window on that
\* weekday, Sunday included.
C28_WeekdayNumbering ==
    (sevent.op = "evaluate" /\ sevent.loaded) =>
        LET frames == FramesOfWeekday(currentConfig, result.date)
        IN  /\ result.status = "ok"
            /\ dayConfig(currentConfig, isoWeekday(result.date)).frames = frames
            /\ result.state = "unlock" <=>
                   \E i \in 1..Len(frames) :
                       InWindow(frames[i], config, MinuteOfDay(result.date))

\* C28 on Monday..Saturday, where the store's key is the ISO weekday.
C28_MondayToSaturday ==
    isoWeekday(result.date) # 7 => C28_WeekdayNumbering

\* A frame accepted for Sunday holds the minute of a Sunday evaluation, which
\* is rejected
C28_SundayFrameIgnored ==
    /\ sevent.op = "evaluate" /\ sevent.loaded
    /\ isoWeekday(result.date) = 7
    /\ \E i \in 1..Len(currentConfig[0]) :
           InWindow(currentConfig[0][i], config, MinuteOfDay(result.date))
    /\ result.status = "throw"

\* A frame accepted for Monday unlocks on a Monday
C28_MondayFrameUnlocks ==
    /\ sevent.op = "evaluate" /\ sevent.loaded
    /\ isoWeekday(result.date) = 1
    /\ stored[1] # << >>
    /\ result.state = "unlock"

\* Sunday requested under the ISO number 7 is refused by the API
C28_SundayAsSevenRefused ==
    sevent.op = "add" /\ sevent.weekday = 7 /\ sevent.status = 400
                      /\ validateTimeFrame(sevent.frame)

-----------------------------------------------------------------------------
(* The clearing write of an expired overwrite                               *)

\* the evaluation found an overwrite whose until was not ahead of its date
SawExpired(e) == e.seen.present /\ e.date >= e.seen.until

\* A getConfigForDate call starts in this step and writes the configuration
ClearingWrite ==
    /\ Len(evals') = Len(evals) + 1
    /\ evals'[Len(evals')].origin \in {"tick", "status"}
    /\ cfgVer' # cfgVer

\* While evaluations that observed an expired overwrite are in flight: the
\* configuration they left has no overwrite and is the one written, unless it
\* was set anew since; evaluations started after them on that configuration
\* found no overwrite; and two of them are a setOverwrite and a clearing write
\* apart.
ClearedForLaterEvaluations ==
    \A i \in 1..Len(evals) : SawExpired(evals[i]) =>
        /\ cfgVer = evals[i].ver =>
               /\ ~config.currentOverwrite.present
               /\ persisted.written /\ persisted.value = config
        /\ \A j \in 1..Len(evals) : j # i =>
               /\ evals[j].ver = evals[i].ver => (j > i /\ ~evals[j].seen.present)
               /\ SawExpired(evals[j]) =>
                      (evals[j].ver >= evals[i].ver + 2 \/ evals[i].ver >= evals[j].ver + 2)

\* C29: the clearing write is issued by the evaluation that observes the
\* expired overwrite, before the call is suspended, and only then: later
\* evaluations, from ticks and from status requests alike, find no overwrite
\* until setOverwrite sets one, and none of them writes again.
C29_ClearingWriteOnce ==
    /\ []ClearedForLaterEvaluations
    /\ [][ClearingWrite =>
            /\ config.currentOverwrite.present /\ now >= config.currentOverwrite.until
            /\ ~config'.currentOverwrite.present
            /\ persisted'.written /\ persisted'.value = config'
            /\ cfgVer' = cfgVer + 1
            /\ SawExpired(evals'[Len(evals')])]_vars

\* A tick's evaluation has cleared an expired overwrite and is suspended; a
\* status request started after it found no overwrite
C29_Witness ==
    \E i, j \in 1..Len(evals) :
        /\ i < j
        /\ evals[i].origin = "tick" /\ SawExpired(evals[i])
        /\ evals[j].origin = "status" /\ ~evals[j].seen.present
        /\ evals[j].ver = evals[i].ver
        /\ cfgVer = evals[i].ver
        /\ persisted.written /\ ~persisted.value.currentOverwrite.present

-----------------------------------------------------------------------------
(* The limits the LRU cache is constructed with                             *)

\* maxSize and maxAge as callers pass them: negative, 0 (or left out), 1
LimitArgs == {-1, 0, 1}

\* maxSize || Infinity, maxAge || Infinity
orInfinity(limit) == IF limit = 0 THEN Infinity ELSE limit

\* The fields the constructor leaves for the options it is given
LRUCacheOf(maxSize, maxAge, loader) ==
    [maxSize |-> orInfinity(maxSize), maxAge |-> orInfinity(maxAge), loader |-> loader]

\* new LRUCache(name, logger, {maxSize, maxAge}) with any of the limits
InitCacheLimits ==
    /\ currentConfig \in ProcSchedules
    /\ config \in {c \in Configs : c.delays.open = 0 /\ c.delays.close = 0
                                   /\ ~c.currentOverwrite.present}
    /\ holidays = {}
    /\ tz = Calendar.utcOffset
    /\ now = 1435
    /\ persisted = NotPersisted
    /\ result = NoResult
    /\ pause = FALSE
    /\ evals = << >>
    /\ lastEmit = NoEmit
    /\ cfgVer = 0
    /\ DoorIdle
    /\ SchedulerAlive
    /\ RpcIdle
    /\ HolidayIdle
    /\ StoreLoaded
    /\ TickerIdle
    /\ byId = [k \in Keys |-> Undefined]
    /\ created = << >>
    /\ lru = << >>
    /\ settings \in {LRUCacheOf(s, a, FALSE) : s \in LimitArgs, a \in LimitArgs}
    /\ clock = 0
    /\ loads = << >>
    /\ ret = NoReturn
    /\ touched = << >>

SpecCacheLimits == InitCacheLimits /\ [][NextCache]_vars

\* C30: no LRU cache with a negative maxSize or maxAge is ever created or
\* used; construction with such a limit fails.
C30_NegativeLimitRefused ==
    settings.maxSize >= 0 /\ settings.maxAge >= 0

\* A cache constructed with maxSize -1 is in use: its add never returns
C30_NegativeMaxSizeInUse ==
    settings.maxSize < 0 /\ ret.op = "add" /\ ret.status = "diverged"

\* A cache constructed with maxAge -1 is in use: add returns the entry it has
\* just stored as evicted
C30_NegativeMaxAgeInUse ==
    /\ settings.maxAge < 0 /\ settings.maxSize > 0
    /\ ret.op = "add" /\ ret.status = "returned"
    /\ ret.evicted = <<(<<ret.key, ret.value>>)>>

-----------------------------------------------------------------------------
(* The door API in front of the scheduler: /set, /test and configuration    *)
(* updates                                                                  *)

\* Stands for an until that is no number: as with NaN, no date lies before it.
NaN == 0 - 1

\* The :state parameter of PUT /set/:state is any string
ApiStates == {"unlock", "open", "ajar"}

\* The request body of PUT /set/:state: null, a timestamp (Monday 10:00) or
\* something that is no number
ApiBodies == {[kind |-> "null", value |-> 0],
              [kind |-> "number", value |-> MinutesPerDay + 600],
              [kind |-> "text", value |-> 0]}

\* what the comparisons in getConfigForDate make of the stored until
untilOf(body) == IF body.kind = "number" THEN body.value ELSE NaN

\* Delays a configuration may carry
ApiDelays == {0 - 15, 0}

\* Scheduler.setOverwrite(state, until): the copy it hands to setConfig
setOverwriteCopy(cfg, state, until) ==
    [cfg EXCEPT !.currentOverwrite = Overwrite(state, until)]

\* PUT /set/:state behind GuardOpen
ApiSetOverwrite(state, body) ==
    /\ ~MicrotaskPending
    /\ cfgVer < MaxConfigChanges
    /\ IF isOpen \/ state = "open"
       THEN /\ event' = Happened("set", 0, state, "405")
            /\ UNCHANGED <<config, persisted, evals, cfgVer, lastEmit>>
       ELSE IF body.kind = "null"
       THEN /\ Len(evals) < MaxInFlight
            /\ \E ready \in BOOLEAN :
                  Begin("clearOverwrite", clearedCopy(config),
                        setConfigPersisted(clearedCopy(config), TRUE), cfgVer + 1, ready)
            /\ event' = Happened("set", 0, state, "204")
            /\ UNCHANGED lastEmit
       ELSE /\ config' = setOverwriteCopy(config, state, untilOf(body))
            /\ persisted' = setConfigPersisted(config', TRUE)
            /\ cfgVer' = cfgVer + 1
            /\ lastEmit' = Emitted(state, "overwrite", "setOverwrite",
                                   Until(untilOf(body)), cfgVer')
            /\ event' = Happened("set", 0, state, "204")
            /\ UNCHANGED evals
    /\ UNCHANGED <<currentConfig, holidays, tz, now, result, pause>>
    /\ UNCHANGED <<running, calls, subs, isOpen, holds>>
    /\ UNCHANGED <<cacheVars, tickerVars, lifeVars, holidayVars, storeVars, rpcVars>>

\* Scheduler.setConfig(cfg, true) with a configuration carrying these delays
SetConfig(open, close) ==
    /\ ~MicrotaskPending
    /\ cfgVer < MaxConfigChanges
    /\ config' = [config EXCEPT !.delays = [open |-> open, close |-> close]]
    /\ persisted' = setConfigPersisted(config', TRUE)
    /\ cfgVer' = cfgVer + 1
    /\ event' = Happened("setConfig", 0, "scheduler", "returned")
    /\ UNCHANGED <<currentConfig, holidays, tz, now, result, pause, evals, lastEmit>>
    /\ UNCHANGED <<running, calls, subs, isOpen, holds>>
    /\ UNCHANGED <<cacheVars, tickerVars, lifeVars, holidayVars, storeVars, rpcVars>>

\* POST /test: getConfigForDate(new Date(req.body))
ApiTest(date) ==
    /\ ~MicrotaskPending
    /\ Len(evals) < MaxInFlight
    /\ \E ready \in BOOLEAN : BeginAt("test", date, config, persisted, cfgVer, ready)
    /\ event' = Happened("test", 0, "api", "called")
    /\ UNCHANGED <<currentConfig, holidays, tz, now, result, pause, lastEmit>>
    /\ UNCHANGED <<running, calls, subs, isOpen, holds>>
    /\ UNCHANGED <<cacheVars, tickerVars, lifeVars, holidayVars, storeVars, rpcVars>>

\* Dates tested: the wall clock's own (Sunday 23:55) and Monday 12:00
TestDates == {1435, MinutesPerDay + 720}

\* Requests to the API and configuration updates while the wall clock stands
\* at Sunday 23:55
NextApi ==
    \/ \E state \in ApiStates, body \in ApiBodies : ApiSetOverwrite(state, body)
    \/ \E o \in ApiDelays : SetConfig(o, 0)
    \/ \E date \in TestDates : ApiTest(date)
    \/ \E i \in 1..MaxInFlight : Resume(i)

SpecApi == InitStatus /\ [][NextApi]_vars

\* a scheduler configuration with delays of at least 0 and, if it has an
\* overwrite, one for lock or unlock until a timestamp
ValidConfig(cfg) ==
    /\ cfg.delays.open >= 0 /\ cfg.delays.close >= 0
    /\ cfg.currentOverwrite.present =>
           /\ cfg.currentOverwrite.state \in {"lock", "unlock"}
           /\ cfg.currentOverwrite.until # NaN

\* C31: an update with negative delays or an invalid overwrite is rejected
\* where it is made: the configuration in effect and the written one are
\* never invalid.
C31_FailFast ==
    ValidConfig(config) /\ ValidConfig(persisted.value)

\* An overwrite with an unknown state is in effect and written
C31_UnknownStateAccepted ==
    /\ event.kind = "set" /\ event.outcome = "204"
    /\ config.currentOverwrite.present /\ config.currentOverwrite.state = "ajar"
    /\ persisted.written /\ persisted.value = config

\* An overwrite whose until is no number is in effect and written
C31_TextUntilAccepted ==
    /\ event.kind = "set" /\ event.outcome = "204"
    /\ config.currentOverwrite.present /\ config.currentOverwrite.until = NaN
    /\ persisted.written /\ persisted.value = config

\* Negative delays are in effect and written
C31_NegativeDelaysAccepted ==
    /\ event.kind = "setConfig"
    /\ config.delays.open < 0
    /\ persisted.written /\ persisted.value = config

\* C32: every state getConfigForDate returns and every state pushed to the
\* state stream is lock or unlock, and a request to set an overwrite with the
\* state open is answered with 405 and changes nothing.
C32_NeverOpen ==
    /\ [](result.status = "ok" => result.state \in {"lock", "unlock"})
    /\ [](lastEmit.origin # "none" => lastEmit.state \in {"lock", "unlock"})
    /\ [][(\E body \in ApiBodies : ApiSetOverwrite("open", body))
            => /\ event'.outcome = "405"
               /\ config' = config /\ persisted' = persisted
               /\ lastEmit' = lastEmit /\ evals' = evals]_vars

\* The part about open itself: it is refused, and it is never returned or
\* emitted.
C32_OpenRefused ==
    /\ [](result.status = "ok" => result.state # "open")
    /\ [](lastEmit.state # "open")
    /\ [][(\E body \in ApiBodies : ApiSetOverwrite("open", body))
            => /\ event'.outcome = "405"
               /\ config' = config /\ persisted' = persisted
               /\ lastEmit' = lastEmit /\ evals' = evals]_vars

\* A request with the state open has been refused
C32_OpenRequestRefused ==
    event.kind = "set" /\ event.owner = "open" /\ event.outcome = "405"

\* An unknown state is returned by getConfigForDate
C32_UnknownStateReturned ==
    result.status = "ok" /\ result.state = "ajar"

\* C35: asking for the door state of some date leaves an overwrite whose until
\* is ahead of the wall clock in place and writes nothing.
C35_QueryLeavesOverwrite ==
    [][(\E date \in TestDates : ApiTest(date))
           /\ config.currentOverwrite.present /\ now < config.currentOverwrite.until
         => config' = config /\ persisted' = persisted]_vars

\* The same for queries about the wall clock's own date
C35_QueryForNow ==
    [][ApiTest(now) /\ config.currentOverwrite.present
                    /\ now < config.currentOverwrite.until
         => config' = config /\ persisted' = persisted]_vars

\* A query for a later date has removed an overwrite that the wall clock has
\* not reached
C35_ClearedAhead ==
    \E i \in 1..Len(evals) :
        /\ evals[i].origin = "test"
        /\ evals[i].seen.present /\ now < evals[i].seen.until
        /\ evals[i].date >= evals[i].seen.until
        /\ cfgVer = evals[i].ver
        /\ ~config.currentOverwrite.present
        /\ persisted.written /\ ~persisted.value.currentOverwrite.present

-----------------------------------------------------------------------------
(* The paused scheduler                                                     *)

\* C33: while the scheduler is paused nothing is pushed to the state stream,
\* neither by a tick, also one whose evaluation started before the pause, nor
\* by setOverwrite or clearOverwrite.
C33_PausedIsSilent ==
    [][(pause /\ pause') => lastEmit' = lastEmit]_vars

\* What the pause does stop: a tick that fires while the scheduler is paused
\* starts no evaluation.
C33_PausedTickDoesNothing ==
    [][(pause /\ Tick) => evals' = evals /\ lastEmit' = lastEmit]_vars

\* setOverwrite has pushed its state while the scheduler was paused
C33_SetOverwriteEmitsPaused ==
    pause /\ lastEmit.origin = "setOverwrite" /\ lastEmit.ver = cfgVer
          /\ \A i \in 1..Len(evals) : evals[i].ver < cfgVer

-----------------------------------------------------------------------------
(* The until of a result and the date it was computed for                   *)

\* C34: every until that getConfigForDate(now) returns is later than now, for
\* unlock and for lock, also when delay.before moves the start of the next
\* frame back across midnight.
C34_UntilAhead ==
    (result.status = "ok" /\ result.until.defined) => result.until.t > result.date

\* The same for results that say unlock, from an overwrite or the schedule
C34_UnlockUntilAhead ==
    (result.status = "ok" /\ result.until.defined /\ result.state = "unlock")
        => result.until.t > result.date

\* A lock a few minutes before midnight whose until is the delayed start of
\* tomorrow's first frame, already past
C34_UntilBehind ==
    /\ result.status = "ok" /\ result.state = "lock" /\ result.source # "overwrite"
    /\ result.until.defined
    /\ MinuteOfDay(result.date) = 1435
    /\ DayOf(result.until.t) = DayOf(result.date)
    /\ result.until.t < result.date

-----------------------------------------------------------------------------
(* Manual open requests and the pause of the scheduler                      *)

\* An API open request is awaiting the board or its 10 s timer
OpenInProgress == holds > 0 \/ \E c \in calls : c.owner = "open"

\* An API reset request is awaiting the board
ResetInProgress == \E c \in calls : c.owner \in {"reset", "resetUnlock"}

\* C36: while a manual open is in progress the scheduler is paused and isOpen
\* is set, also with overlapping open requests and with a reset awaiting the
\* board; when no open and no reset is in progress the scheduler is not
\* paused and isOpen is not set.
C36_OpenKeepsPause ==
    /\ OpenInProgress => (pause /\ isOpen)
    /\ (~OpenInProgress /\ ~ResetInProgress) => (~pause /\ ~isOpen)

\* The end of it: with no request left the scheduler runs and isOpen is off.
C36_Quiescent ==
    (~OpenInProgress /\ ~ResetInProgress) => (~pause /\ ~isOpen)

\* The start of it: an open request sets the pause and isOpen.
C36_OpenRequestPauses ==
    (event.kind = "request" /\ event.owner = "open") => (pause /\ isOpen)

\* The timer of one open request has released the pause while another open
\* request is still holding the door
C36_ReleasedEarly ==
    /\ event.kind = "hold" /\ holds > 0
    /\ ~pause /\ ~isOpen

-----------------------------------------------------------------------------
(* One actuator RPC call on the MQTT connection.  The broker handles the     *)
(* client's operations in the order the client issued them; the door         *)
(* controller answers a request it gets on the topic named in replyTo.       *)

MqttOp(op, tok, method) == [op |-> op, tok |-> tok, method |-> method]

\* the operations of _call in a variant that publishes before it subscribes
callOperationsPublishFirst(tok, method) ==
    <<MqttOp("publish", tok, method), MqttOp("subscribe", tok, method)>>

\* DoorControllerRPC._call(method): this._mqtt.subscribe(reply)...subscribe(),
\* then this._mqtt.publish(.., {replyTo: reply})
callOperations(tok, method) ==
    <<MqttOp("subscribe", tok, method), MqttOp("publish", tok, method)>>

\* how often tok occurs in a sequence of tokens
Occurrences(log, tok) == Cardinality({i \in 1..Len(log) : log[i] = tok})

rpcSchedulerVars == <<currentConfig, config, holidays, tz, now, persisted, result,
                      pause, evals, lastEmit, cfgVer>>

notRpcVars == <<rpcSchedulerVars, running, isOpen, holds, cacheVars, tickerVars,
                lifeVars, holidayVars, storeVars>>

\* lock(), unlock() or open(): _call(method) up to the promise it returns
RpcCall(method) ==
    /\ \E tok \in generateUUID(subs \cup {c.tok : c \in calls}
                                    \cup {requested[i] : i \in 1..Len(requested)}
                                    \cup {wire[i].tok : i \in 1..Len(wire)}) :
          /\ calls' = calls \cup {Call(tok, method, "rpc")}
          /\ wire' = wire \o callOperations(tok, method)
          /\ event' = Happened("request", tok, "rpc", "called")
    /\ UNCHANGED <<subs, requested, notRpcVars>>

\* The broker handles the next operation of the client: it registers the
\* subscription, or passes the request on to the door controller
BrokerTakes ==
    /\ wire # << >>
    /\ wire' = Tail(wire)
    /\ IF Head(wire).op = "subscribe"
       THEN /\ subs' = IF \E c \in calls : c.tok = Head(wire).tok
                       THEN subs \cup {Head(wire).tok} ELSE subs
            /\ UNCHANGED requested
       ELSE /\ requested' = Append(requested, Head(wire).tok)
            /\ UNCHANGED subs
    /\ event' = Happened(Head(wire).op, Head(wire).tok, "broker", "done")
    /\ UNCHANGED <<calls, notRpcVars>>

\* The door controller publishes its answer to a request on the reply topic;
\* take(1) resolves the call if the subscription is there to see it
DeviceReplies(tok) ==
    /\ Occurrences(requested, tok) > 0
    /\ \E c \in calls :
          /\ c.tok = tok
          /\ IF tok \in subs
             THEN /\ calls' = calls \ {c}
                  /\ subs' = subsAfterSettle(subs, tok)
                  /\ event' = Happened("reply", tok, "rpc", "resolved")
             ELSE /\ event' = Happened("reply", tok, "rpc", "missed")
                  /\ UNCHANGED <<calls, subs>>
    /\ UNCHANGED <<wire, requested, notRpcVars>>

\* timeout(timeoutMs) rejects the call
RpcTimeout(tok) ==
    /\ \E c \in calls :
          /\ c.tok = tok
          /\ calls' = calls \ {c}
          /\ subs' = subsAfterSettle(subs, tok)
          /\ event' = Happened("timeout", tok, "rpc", "rejected")
    /\ UNCHANGED <<wire, requested, notRpcVars>>

NextRpc ==
    \/ \E method \in DoorStates : RpcCall(method)
    \/ BrokerTakes
    \/ \E tok \in Tokens : DeviceReplies(tok)
    \/ \E tok \in Tokens : RpcTimeout(tok)

SpecRpc == InitDoor /\ [][NextRpc]_vars

\* C40: in every call the subscription to the reply topic is in place before
\* the request is passed on, exactly one request message is sent per call, and
\* so an answer sent right after the request is not missed.
C40_SubscribedBeforeRequest ==
    /\ \A c \in calls : Occurrences(requested, c.tok) > 0 => c.tok \in subs
    /\ \A tok \in Tokens : Occurrences(requested, tok) <= 1
    /\ event.outcome # "missed"
    /\ \A i \in 1..Len(wire) : wire[i].op = "publish" =>
           /\ \A j \in 1..Len(wire) : (wire[j].op = "publish" /\ wire[j].tok = wire[i].tok)
                                          => j = i
           /\ Occurrences(requested, wire[i].tok) = 0

\* The broker has passed a request on, the answer came while two more
\* operations of a second call were on their way, and resolved the call
C40_Witness ==
    /\ event.kind = "reply" /\ event.outcome = "resolved"
    /\ Occurrences(requested, event.tok) = 1
    /\ Len(wire) = 2

-----------------------------------------------------------------------------
(* The scheduler's subscription to the ticker.  setConfig, and with it       *)
(* setOverwrite, clearOverwrite and the clearing of an expired overwrite     *)
(* inside an evaluation, ends in _setupInterval.  The subscription the       *)
(* scheduler holds is the last of tickers.                                   *)

\* subscriptions one behaviour may make: the constructor's and the re-made ones
MaxSetups == MaxTickerSubs + 1

\* _setupInterval(): unsubscribe the subscription held, subscribe anew
setupInterval(subs_, interval, t) ==
    Append([i \in 1..Len(subs_) |->
               IF i = Len(subs_) /\ ~subs_[i].closed THEN teardown(subs_[i]) ELSE subs_[i]],
           Subscription(interval, t))

\* setConfig(cfg) between two timer callbacks
SetupInterval(interval) ==
    /\ Len(tickers) < MaxSetups
    /\ tickers' = setupInterval(tickers, interval, wall)
    /\ tevent' = TickerEvent("setup", Len(tickers) + 1, FALSE)
    /\ UNCHANGED <<wall, notTickerVars>>

\* The setTimeout callback of subscription i: tick(), in which the subscriber
\* may find an expired overwrite and call setConfig, then setInterval
SchedulerTimeoutFires(i, resets) ==
    /\ i \in 1..Len(tickers)
    /\ tickers[i].timeoutArmed
    /\ tickers[i].timeoutDue = wall
    /\ resets => (~tickers[i].closed /\ Len(tickers) < MaxSetups)
    /\ LET ticked == [tickers EXCEPT ![i] = AfterTick(tickers[i], wall)]
           after == IF resets THEN setupInterval(ticked, ticked[i].interval, wall)
                    ELSE ticked
       IN  tickers' = [after EXCEPT ![i] = [after[i] EXCEPT !.timeoutArmed = FALSE,
                                                            !.timerArmed = TRUE,
                                                            !.timerDue = wall + after[i].interval]]
    /\ tevent' = TickerEvent("timeout", i, ~tickers[i].closed)
    /\ UNCHANGED <<wall, notTickerVars>>

\* The setInterval callback of subscription i: tick()
SchedulerIntervalFires(i, resets) ==
    /\ i \in 1..Len(tickers)
    /\ tickers[i].timerArmed
    /\ tickers[i].timerDue = wall
    /\ resets => (~tickers[i].closed /\ Len(tickers) < MaxSetups)
    /\ LET ticked == [tickers EXCEPT ![i] = AfterTick(tickers[i], wall)]
           after == IF resets THEN setupInterval(ticked, ticked[i].interval, wall)
                    ELSE ticked
       IN  tickers' = [after EXCEPT ![i] =
                          [after[i] EXCEPT !.timerDue = IF after[i].timerArmed
                                                        THEN wall + after[i].interval
                                                        ELSE after[i].timerDue]]
    /\ tevent' = TickerEvent("interval", i, ~tickers[i].closed)
    /\ UNCHANGED <<wall, notTickerVars>>

\* after the constructor's setConfig
InitInterval ==
    /\ currentConfig \in ProcSchedules
    /\ config \in {c \in Configs : c.delays.open = 0 /\ c.delays.close = 0
                                   /\ ~c.currentOverwrite.present}
    /\ holidays = {}
    /\ tz = Calendar.utcOffset
    /\ now = 1435
    /\ persisted = NotPersisted
    /\ result = NoResult
    /\ pause = FALSE
    /\ evals = << >>
    /\ lastEmit = NoEmit
    /\ cfgVer = 0
    /\ DoorIdle
    /\ SchedulerAlive
    /\ RpcIdle
    /\ HolidayIdle
    /\ StoreLoaded
    /\ CacheIdle
    /\ wall \in StartSeconds
    /\ \E interval \in TickerIntervals : tickers = <<Subscription(interval, wall)>>
    /\ tevent = NoTick

NextInterval ==
    \/ \E s \in TickerIntervals : SetupInterval(s)
    \/ \E i \in 1..MaxSetups, resets \in BOOLEAN : SchedulerTimeoutFires(i, resets)
    \/ \E i \in 1..MaxSetups, resets \in BOOLEAN : SchedulerIntervalFires(i, resets)
    \/ Second

SpecInterval == InitInterval /\ [][NextInterval]_vars

\* the timers of all subscriptions the runtime still holds
ArmedTimers ==
    {<<i, "timeout">> : i \in {j \in 1..Len(tickers) : tickers[j].timeoutArmed}}
        \cup {<<i, "interval">> : i \in {j \in 1..Len(tickers) : tickers[j].timerArmed}}

OpenSubscriptions == {i \in 1..Len(tickers) : ~tickers[i].closed}

\* subscriptions whose subscriber got an emission in the current second
EmissionsThisSecond ==
    {i \in 1..Len(tickers) : tickers[i].count >= 1 /\ tickers[i].last = wall}

\* C37: however often the subscription was re-made, between timer callbacks
\* or from inside a tick, there is exactly one subscription to the ticker, at
\* most one ticker timer is armed, and no second sees two emissions.
C37_OneSubscriptionOneTimer ==
    /\ Cardinality(OpenSubscriptions) = 1
    /\ Cardinality(ArmedTimers) <= 1
    /\ Cardinality(EmissionsThisSecond) <= 1

\* The part about the subscription and the evaluations: one open subscription,
\* it is the one made last, and no second sees two emissions.
C37_OneDrivingSubscription ==
    /\ OpenSubscriptions = {Len(tickers)}
    /\ Cardinality(EmissionsThisSecond) <= 1

\* A subscription re-made before the first tick leaves one armed timer.
C37_ResetupBeforeFirstTick ==
    (\A i \in 1..Len(tickers) : tickers[i].closed => tickers[i].count = 0)
        => Cardinality(ArmedTimers) <= 1

\* The interval timer of a subscription that was replaced after its first
\* tick is still armed next to the timer of the one that replaced it.
C37_TimerLeftBehind ==
    /\ Len(tickers) >= 2
    /\ tickers[1].closed /\ tickers[1].timerArmed
    /\ Cardinality(ArmedTimers) >= 2

-----------------------------------------------------------------------------
(* The eviction loop and stored values that are falsy                       *)

\* C38: every cache call returns, also with falsy values stored: the loop of
\* evict removes an entry on every iteration.
C38_EvictTerminates == ret.status # "diverged"

\* With no falsy value in the value map every call has returned.
C38_TruthyValuesTerminate ==
    (\A k \in Keys : truthy(byId[k]) \/ byId[k] = Undefined) => ret.status # "diverged"

\* The least recently used key holds the empty string when an add overflows
\* the cache: delete removes nothing and the loop goes on for ever
C38_LoopOnFalsyValue ==
    /\ ret.op = "add" /\ ret.status = "diverged"
    /\ settings.maxSize >= 1
    /\ Len(lru) > settings.maxSize
    /\ byId[lru[Len(lru)]] = ""

-----------------------------------------------------------------------------
(* The three structures of the LRU cache                                    *)

\* LRUCache.clear(): super.clear(), this._created.clear(), this._lru = [].
\* The base class at hand has no clear method, so the call throws before it
\* touches anything; with a base class that clears its map all three are empty.
clear(C, baseHasClear) ==
    IF baseHasClear
    THEN [cache |-> CacheOf([k \in Keys |-> Undefined], << >>, << >>), threw |-> FALSE]
    ELSE [cache |-> C, threw |-> TRUE]

\* cache.clear(), also from onDestroy
Clear(baseHasClear) ==
    /\ ~Hung
    /\ \E c \in {clear(TheCache, baseHasClear)} :
          /\ SetCache(c.cache)
          /\ touched' = StillStored(touched, c.cache.byId)
          /\ ret' = [Ret("clear", "none", Undefined, << >>, TRUE, FALSE)
                        EXCEPT !.status = IF c.threw THEN "threw" ELSE "returned"]
    /\ UNCHANGED <<settings, clock, loads, otherVars>>

NextCacheClear ==
    \/ \E key \in Keys, value \in Values : Add(key, value)
    \/ \E key \in Keys : Get(key)
    \/ \E key \in Keys : Delete(key)
    \/ Evict
    \/ \E baseHasClear \in BOOLEAN : Clear(baseHasClear)
    \/ ClockTick

SpecCacheClear == InitCache /\ [][NextCacheClear]_vars

\* keys of the recency list and of the creation-time map
LruKeys == {lru[i] : i \in 1..Len(lru)}
CreatedKeys == {created[i].key : i \in 1..Len(created)}

InSync ==
    /\ StoredKeys = LruKeys
    /\ Len(lru) = Cardinality(LruKeys)
    /\ StoredKeys = CreatedKeys

\* C39: after any sequence of add, get, delete, evict and clear the value map,
\* the recency list (which names no key twice) and the creation-time map hold
\* the same keys.
C39_StructuresInSync == InSync

\* With no falsy value in the value map the three structures hold the same keys.
C39_TruthyValuesInSync ==
    (\A k \in Keys : truthy(byId[k]) \/ byId[k] = Undefined) => InSync

\* The recency list names no key twice, whatever the values.
C39_NoDuplicatesInLru == Len(lru) = Cardinality(LruKeys)

\* delete of a key that holds the empty string has returned: the value map
\* and the recency list still have the key, the creation-time map has not
C39_DeleteOfFalsyValue ==
    /\ ret.op = "delete" /\ ret.status = "returned"
    /\ byId[ret.key] = ""
    /\ ret.key \in LruKeys
    /\ ret.key \notin CreatedKeys

====
